---- MODULE Spec2Model ----
(***************************************************************************)
(* Model of the contact manager: field value types (Name, Phone), the      *)
(* contact Record, the AddressBook store and their validators.             *)
(*                                                                         *)
(* A Python str is a sequence of one-character strings, so that strip,     *)
(* casefold, the "in" substring test and re.sub(r"\D", "", s) are computed *)
(* character by character.  A dict is a sequence of [key, record] entries  *)
(* in insertion order.  A raised exception is an error record; NoError     *)
(* stands for a normal return.                                             *)
(***************************************************************************)
EXTENDS Integers, Sequences, FiniteSets, TLC

VARIABLES
    data,         \* AddressBook.data, the dict of the store
    record,       \* a Record object of its own, not in the store
    last,         \* the last call: method, arguments, exception, result
    prev_data,    \* data before the last call
    prev_record,  \* record before the last call
    emptied,      \* history: the store held records and its last one was deleted
    field,        \* a Phone or Birthday object of its own
    prev_field,   \* field before the last call
    today,        \* the date of the system clock, date.today()
    app,          \* the process of main(): its position and what it did
    disk          \* the snapshot file and the faults of the file system

vars == <<data, record, last, prev_data, prev_record, emptied, field, prev_field, today,
          app, disk>>

(***************************************************************************)
(* Bounds of the model                                                     *)
(***************************************************************************)
\* largest number of contacts the store holds in the model
MaxRecords == 3
\* largest number of phones a record holds in the model
MaxPhones == 3
\* largest number of days the clock moves on in the model
MaxClockDays == 2
\* largest number of phones a contact holds in the calls of the facade
MaxFacadePhones == 2
\* largest number of lines main() reads in one run, exit and close apart
MaxCommands == 2
\* largest number of runs of the program
MaxRuns == 2

(***************************************************************************)
(* str helpers                                                             *)
(***************************************************************************)
Upper == <<"A","B","C","D","E","F","G","H","I","J","K","L","M",
           "N","O","P","Q","R","S","T","U","V","W","X","Y","Z">>
Lower == <<"a","b","c","d","e","f","g","h","i","j","k","l","m",
           "n","o","p","q","r","s","t","u","v","w","x","y","z">>
Digits == {"0","1","2","3","4","5","6","7","8","9"}
Whitespace == {" ", "\t", "\n"}

\* the characters of the ASCII subset the model's strings are written in
Chars ==
    {Upper[i] : i \in 1..Len(Upper)} \cup {Lower[i] : i \in 1..Len(Lower)}
        \cup Digits \cup Whitespace \cup {"+", "-"}

\* str.casefold() of one character: an upper-case letter becomes the
\* lower-case one, every other character is kept
casefold_table ==
    [c \in Chars |->
        IF \E i \in 1..Len(Upper) : Upper[i] = c
        THEN Lower[CHOOSE i \in 1..Len(Upper) : Upper[i] = c]
        ELSE c]

casefold_char(c) == casefold_table[c]

\* str.casefold()
casefold(s) == [i \in 1..Len(s) |-> casefold_char(s[i])]

RECURSIVE lstrip(_)
lstrip(s) == IF s # <<>> /\ Head(s) \in Whitespace THEN lstrip(Tail(s)) ELSE s

RECURSIVE rstrip(_)
rstrip(s) ==
    IF s # <<>> /\ s[Len(s)] \in Whitespace
    THEN rstrip(SubSeq(s, 1, Len(s) - 1))
    ELSE s

\* str.strip()
strip(s) == rstrip(lstrip(s))

\* the Python test "needle in hay" on two str
str_in(needle, hay) ==
    \E i \in 0..(Len(hay) - Len(needle)) :
        SubSeq(hay, i + 1, i + Len(needle)) = needle

IsDigit(c) == c \in Digits

\* re.sub(r"\D", "", phone)
digits_only(phone) == SelectSeq(phone, IsDigit)

(***************************************************************************)
(* Exceptions                                                              *)
(***************************************************************************)
NoError == [exc |-> "none", msg |-> "", args |-> <<>>]
ValidationError(msg, args) == [exc |-> "ValidationError", msg |-> msg, args |-> args]
TypeError(msg, args) == [exc |-> "TypeError", msg |-> msg, args |-> args]

\* utils/constants.py
NAME_MIN_LENGTH == 2
NAME_MAX_LENGTH == 50
PHONE_DIGITS == 10

(***************************************************************************)
(* datetime.date, as utils/date_utils.py and the services use it           *)
(***************************************************************************)
ValueError(msg, args) == [exc |-> "ValueError", msg |-> msg, args |-> args]

\* a date object
date(year, month, day) == [year |-> year, month |-> month, day |-> day]

\* in the place of a date, where a call raised and gives none
NoDate == date(0, 0, 0)

\* a rule that makes every fourth year a leap year
is_leap_year_julian(year) == year % 4 = 0

\* utils/date_utils.py
is_leap_year(year) == year % 4 = 0 /\ (year % 100 # 0 \/ year % 400 = 0)

days_in_month(year, month) ==
    IF month = 2 THEN (IF is_leap_year(year) THEN 29 ELSE 28)
    ELSE IF month \in {4, 6, 9, 11} THEN 30
    ELSE 31

MINYEAR == 1
MAXYEAR == 9999

\* the check of the date constructor and of date.replace
date_is_valid(year, month, day) ==
    /\ year \in MINYEAR..MAXYEAR
    /\ month \in 1..12
    /\ day \in 1..days_in_month(year, month)

\* a < b and a <= b on two dates: the order of (year, month, day)
date_lt(a, b) ==
    \/ a.year < b.year
    \/ a.year = b.year /\ a.month < b.month
    \/ a.year = b.year /\ a.month = b.month /\ a.day < b.day

date_le(a, b) == a = b \/ date_lt(a, b)

days_before_year(year) ==
    LET y == year - 1 IN y * 365 + (y \div 4) - (y \div 100) + (y \div 400)

RECURSIVE days_before_month(_, _)
days_before_month(year, month) ==
    IF month = 1 THEN 0
    ELSE days_before_month(year, month - 1) + days_in_month(year, month - 1)

\* date.toordinal(): 1 for 01.01.0001
toordinal(d) == days_before_year(d.year) + days_before_month(d.year, d.month) + d.day

\* date.weekday(): 0 for Monday, 5 for Saturday, 6 for Sunday
weekday(d) == (toordinal(d) + 6) % 7

\* the month and the day of the n-th day (from 0) of a year
RECURSIVE month_day_of(_, _, _)
month_day_of(year, month, n) ==
    IF n < days_in_month(year, month) THEN date(year, month, n + 1)
    ELSE month_day_of(year, month + 1, n - days_in_month(year, month))

\* date.fromordinal(n)
fromordinal(n0) ==
    LET n    == n0 - 1
        n400 == n \div 146097
        r400 == n % 146097
        n100 == r400 \div 36524
        r100 == r400 % 36524
        n4   == r100 \div 1461
        r4   == r100 % 1461
        n1   == r4 \div 365
        r1   == r4 % 365
        year == n400 * 400 + 1 + n100 * 100 + n4 * 4 + n1
    IN IF n1 = 4 \/ n100 = 4 THEN date(year - 1, 12, 31)
       ELSE month_day_of(year, 1, r1)

\* date + timedelta(days)
date_plus_days(d, days) == fromordinal(toordinal(d) + days)

DigitSeq == <<"0", "1", "2", "3", "4", "5", "6", "7", "8", "9">>

\* int() of one digit
digit_value(c) == (CHOOSE i \in 1..10 : DigitSeq[i] = c) - 1

\* int() of a str of digits
RECURSIVE int_of(_)
int_of(s) ==
    IF s = <<>> THEN 0
    ELSE int_of(SubSeq(s, 1, Len(s) - 1)) * 10 + digit_value(s[Len(s)])

all_digits(s) == \A i \in 1..Len(s) : IsDigit(s[i])

\* the directives of DATE_FORMAT as strptime matches them:
\* %d is 3[0-1]|[1-2]\d|0[1-9]|[1-9]| [1-9], %m is 1[0-2]|0[1-9]|[1-9],
\* %Y is \d\d\d\d
strptime_d(s) ==
    \/ all_digits(s) /\ Len(s) \in 1..2 /\ int_of(s) \in 1..31
    \/ Len(s) = 2 /\ s[1] = " " /\ IsDigit(s[2]) /\ s[2] # "0"

strptime_m(s) == all_digits(s) /\ Len(s) \in 1..2 /\ int_of(s) \in 1..12

strptime_Y(s) == all_digits(s) /\ Len(s) = 4

\* utils/date_utils.py parse_date(date_str): [err, value]
parse_date(date_str) ==
    LET dots == {i \in 1..Len(date_str) : date_str[i] = "."}
        i1   == CHOOSE i \in dots : \A j \in dots : i <= j
        i2   == CHOOSE i \in dots : \A j \in dots : j <= i
        dd   == SubSeq(date_str, 1, i1 - 1)
        mm   == SubSeq(date_str, i1 + 1, i2 - 1)
        yyyy == SubSeq(date_str, i2 + 1, Len(date_str))
        day  == int_of(SelectSeq(dd, IsDigit))
    IN IF Cardinality(dots) # 2 \/ ~strptime_d(dd) \/ ~strptime_m(mm) \/ ~strptime_Y(yyyy)
       THEN [err |-> ValueError("does not match format", <<date_str>>), value |-> NoDate]
       ELSE IF ~date_is_valid(int_of(yyyy), int_of(mm), day)
       THEN [err |-> ValueError("day is out of range for month", <<>>), value |-> NoDate]
       ELSE [err |-> NoError, value |-> date(int_of(yyyy), int_of(mm), day)]

\* n as a str of the given number of digits, zero-padded
RECURSIVE zero_padded(_, _)
zero_padded(n, width) ==
    IF width = 0 THEN <<>>
    ELSE Append(zero_padded(n \div 10, width - 1), DigitSeq[(n % 10) + 1])

\* utils/date_utils.py format_date_str(date_obj), for the years from 1000 on
format_date_str(date_obj) ==
    zero_padded(date_obj.day, 2) \o <<".">> \o zero_padded(date_obj.month, 2)
        \o <<".">> \o zero_padded(date_obj.year, 4)

(***************************************************************************)
(* validators/field_validators.py                                          *)
(***************************************************************************)
\* a check of the length that takes NAME_MAX_LENGTH for too long already
validate_username_length_below_max(username0) ==
    LET username == strip(username0) IN
    IF username = <<>> THEN ValidationError("USERNAME_EMPTY_ERROR", <<>>)
    ELSE IF Len(username) < NAME_MIN_LENGTH
         THEN ValidationError("USERNAME_TOO_SHORT_ERROR", <<username>>)
    ELSE IF Len(username) >= NAME_MAX_LENGTH
         THEN ValidationError("USERNAME_TOO_LONG_ERROR", <<username>>)
    ELSE NoError

validate_username_length(username0) ==
    LET username == strip(username0) IN
    IF username = <<>> THEN ValidationError("USERNAME_EMPTY_ERROR", <<>>)
    ELSE IF Len(username) < NAME_MIN_LENGTH
         THEN ValidationError("USERNAME_TOO_SHORT_ERROR", <<username>>)
    ELSE IF Len(username) > NAME_MAX_LENGTH
         THEN ValidationError("USERNAME_TOO_LONG_ERROR", <<username>>)
    ELSE NoError

\* a check of the phone number that asks for a digit only
validate_phone_number_any_digits(phone0) ==
    LET phone == strip(phone0) IN
    IF phone = <<>> THEN ValidationError("PHONE_EMPTY_ERROR", <<>>)
    ELSE IF Len(digits_only(phone)) = 0
         THEN ValidationError("PHONE_INVALID_FORMAT_ERROR", <<phone>>)
    ELSE NoError

validate_phone_number(phone0) ==
    LET phone == strip(phone0) IN
    IF phone = <<>> THEN ValidationError("PHONE_EMPTY_ERROR", <<>>)
    ELSE IF ~(Len(digits_only(phone)) = PHONE_DIGITS)
         THEN ValidationError("PHONE_INVALID_FORMAT_ERROR", <<phone>>)
    ELSE NoError

\* validate_date_format(value): [err, value]
validate_date_format(value) ==
    LET parsed == parse_date(value) IN
    IF parsed.err # NoError
    THEN [err |-> ValidationError("DATE_FORMAT_INVALID_ERROR", <<value>>), value |-> NoDate]
    ELSE parsed

\* a check that takes today's date for a future one too
validate_birthday_is_before_today(date_obj) ==
    IF ~date_lt(date_obj, today)
    THEN ValidationError("BIRTHDAY_IN_FUTURE_ERROR", <<format_date_str(date_obj)>>)
    ELSE NoError

\* validate_birthday_is_in_the_past(date); today is date.today()
validate_birthday_is_in_the_past(date_obj) ==
    IF date_lt(today, date_obj)
    THEN ValidationError("BIRTHDAY_IN_FUTURE_ERROR", <<format_date_str(date_obj)>>)
    ELSE NoError

(***************************************************************************)
(* services/address_book: Name, Phone, Record                              *)
(***************************************************************************)
\* Name(username): [err, value]
Name(username0) ==
    LET username == strip(username0)
        err == validate_username_length(username)
    IN [err |-> err, value |-> IF err = NoError THEN username ELSE <<>>]

\* the value setter of Name on the object self: [err, field], field being
\* the object after the assignment
Name_value_setter(self, username0) ==
    LET username == strip(username0)
        err == validate_username_length(username)
    IN [err |-> err,
        field |-> IF err = NoError THEN [self EXCEPT !.value = username] ELSE self]

\* a Phone holding the digits of the input only
Phone_stored_value_digits(phone_number) == digits_only(strip(phone_number))

\* the value a Phone holds after Phone(phone_number) or after the value
\* setter: the stripped input, as given
Phone_stored_value(phone_number) == strip(phone_number)

\* Phone(phone_number): [err, value]
Phone(phone_number0) ==
    LET phone_number == strip(phone_number0)
        err == validate_phone_number(phone_number)
    IN [err |-> err,
        value |-> IF err = NoError THEN Phone_stored_value(phone_number0) ELSE <<>>]

\* a Phone or a Birthday object of its own: [cls, value]
NoField == [cls |-> "none", value |-> <<>>]

\* the value setter of Phone on the object self: [err, field], field being
\* the object after the assignment
Phone_value_setter(self, phone_number0) ==
    LET phone_number == strip(phone_number0)
        err == validate_phone_number(phone_number)
    IN [err |-> err,
        field |-> IF err = NoError
                  THEN [self EXCEPT !.value = Phone_stored_value(phone_number0)]
                  ELSE self]

\* Phone.update_phone(phone_number)
Phone_update_phone(self, phone_number) == Phone_value_setter(self, phone_number)

\* Record(username): [err, rec]; a record is [name, birthday, phones] where
\* birthday is <<>> for None and phones is the list of the Phone values
NoRecord == [name |-> <<>>, birthday |-> <<>>, phones |-> <<>>]
Record(username) ==
    LET n == Name(username) IN
    [err |-> n.err,
     rec |-> IF n.err = NoError
             THEN [name |-> n.value, birthday |-> <<>>, phones |-> <<>>]
             ELSE NoRecord]

(***************************************************************************)
(* validators/contact_validators.py                                        *)
(***************************************************************************)
ensure_contacts_storage_not_empty(contacts) ==
    IF contacts = <<>> THEN ValidationError("MSG_NO_CONTACTS", <<>>) ELSE NoError

\* contact_clash without the different-case message: every clash is reported
\* as the plain one
contact_clash_plain_only(username, contact_name) ==
    IF casefold(contact_name) = casefold(username)
    THEN ValidationError("MSG_CONTACT_EXISTS", <<username>>)
    ELSE NoError

\* the loop over contacts.values(): the error raised at contact i, if any
contact_clash(username, contact_name) ==
    IF contact_name = username
    THEN ValidationError("MSG_CONTACT_EXISTS", <<username>>)
    ELSE IF casefold(contact_name) = casefold(username)
    THEN ValidationError("MSG_CONTACT_EXISTS_DIFFERENT_NAME", <<username, contact_name>>)
    ELSE NoError

\* ensure_contact_not_in_contacts_storage with the exact comparison only
ensure_contact_not_in_contacts_storage_exact_only(username, contacts) ==
    IF \E i \in 1..Len(contacts) : contacts[i].rec.name = username
    THEN ValidationError("MSG_CONTACT_EXISTS", <<username>>)
    ELSE NoError

ensure_contact_not_in_contacts_storage(username, contacts) ==
    LET hits == {i \in 1..Len(contacts) :
                    contact_clash(username, contacts[i].rec.name) # NoError}
    IN IF hits = {} THEN NoError
       ELSE LET first == CHOOSE i \in hits : \A j \in hits : i <= j
            IN contact_clash(username, contacts[first].rec.name)

\* next((c for c in contacts if c.casefold() == username.casefold()), None):
\* the index of the first such key, 0 for None
first_casefold_match(username, contacts) ==
    LET hits == {i \in 1..Len(contacts) :
                    casefold(contacts[i].key) = casefold(username)}
    IN IF hits = {} THEN 0 ELSE CHOOSE i \in hits : \A j \in hits : i <= j

\* ensure_contact_is_in_contacts_storage comparing the stripped username
ensure_contact_is_in_contacts_storage_stripped(username0, contacts) ==
    LET username == strip(username0)
        m == first_casefold_match(username, contacts)
    IN IF m = 0 \/ contacts[m].key = <<>>
       THEN [err |-> ValidationError("MSG_CONTACT_NOT_FOUND", <<username0>>), idx |-> 0]
       ELSE IF contacts[m].key # username
       THEN [err |-> ValidationError("MSG_CONTACT_NOT_FOUND_DID_YOU_MEAN",
                                     <<username0, contacts[m].key>>),
             idx |-> 0]
       ELSE [err |-> NoError, idx |-> m]

\* [err, idx]: idx is the position of the returned contact
ensure_contact_is_in_contacts_storage(username, contacts) ==
    LET m == first_casefold_match(username, contacts) IN
    IF m = 0 \/ contacts[m].key = <<>>
    THEN [err |-> ValidationError("MSG_CONTACT_NOT_FOUND", <<username>>), idx |-> 0]
    ELSE IF contacts[m].key # username
    THEN [err |-> ValidationError("MSG_CONTACT_NOT_FOUND_DID_YOU_MEAN",
                                  <<username, contacts[m].key>>),
          idx |-> 0]
    ELSE [err |-> NoError, idx |-> m]

ensure_phone_not_in_contact(phone_number, rec) ==
    IF \E i \in 1..Len(rec.phones) : rec.phones[i] = phone_number
    THEN ValidationError("MSG_PHONE_NUMBER_EXISTS", <<rec.name, phone_number>>)
    ELSE NoError

\* [err, idx]: idx is the position of the first phone with this value
ensure_phone_is_in_contact(phone_number, rec) ==
    LET hits == {i \in 1..Len(rec.phones) : rec.phones[i] = phone_number} IN
    IF hits = {}
    THEN [err |-> ValidationError("MSG_PHONE_NUMBER_NOT_FOUND", <<phone_number, rec.name>>),
          idx |-> 0]
    ELSE [err |-> NoError, idx |-> CHOOSE i \in hits : \A j \in hits : i <= j]

(***************************************************************************)
(* services/address_book/record.py: the methods as functions of the record *)
(* returning [err, rec], rec being the record after the call               *)
(***************************************************************************)
Record_add_phone(rec, phone_number) ==
    LET dup == ensure_phone_not_in_contact(phone_number, rec)
        new_phone == Phone(phone_number)
    IN IF dup # NoError THEN [err |-> dup, rec |-> rec]
       ELSE IF new_phone.err # NoError THEN [err |-> new_phone.err, rec |-> rec]
       ELSE [err |-> NoError,
             rec |-> [rec EXCEPT !.phones = Append(@, new_phone.value)]]

Record_find_phone(rec, phone_number) == ensure_phone_is_in_contact(phone_number, rec)

Record_edit_phone(rec, prev_phone_number, new_phone_number) ==
    LET dup == ensure_phone_not_in_contact(new_phone_number, rec)
        found == ensure_phone_is_in_contact(prev_phone_number, rec)
        upd == Phone(new_phone_number)
    IN IF dup # NoError THEN [err |-> dup, rec |-> rec]
       ELSE IF found.err # NoError THEN [err |-> found.err, rec |-> rec]
       ELSE IF upd.err # NoError THEN [err |-> upd.err, rec |-> rec]
       ELSE [err |-> NoError,
             rec |-> [rec EXCEPT !.phones[found.idx] = upd.value]]

\* list.pop() with no index: the last item is removed
list_pop_last(s, idx) == SubSeq(s, 1, Len(s) - 1)

\* list.pop(idx)
list_pop(s, idx) == SubSeq(s, 1, idx - 1) \o SubSeq(s, idx + 1, Len(s))

Record_remove_phone(rec, phone_number) ==
    LET found == ensure_phone_is_in_contact(phone_number, rec) IN
    IF found.err # NoError THEN [err |-> found.err, rec |-> rec]
    ELSE [err |-> NoError, rec |-> [rec EXCEPT !.phones = list_pop(@, found.idx)]]

(***************************************************************************)
(* services/address_book/address_book.py: the methods as functions of the  *)
(* dict self.data                                                          *)
(***************************************************************************)
\* self.data[username] = contact
dict_setitem(contacts, key, rec) ==
    IF \E i \in 1..Len(contacts) : contacts[i].key = key
    THEN [i \in 1..Len(contacts) |->
            IF contacts[i].key = key THEN [key |-> key, rec |-> rec] ELSE contacts[i]]
    ELSE Append(contacts, [key |-> key, rec |-> rec])

\* self.data.pop(username)
dict_pop(contacts, key) == SelectSeq(contacts, LAMBDA e : e.key # key)

\* validators/args_validators.py; types are named by their class name
validate_argument_type(obj_type, expected_type) ==
    IF obj_type # expected_type
    THEN TypeError("ERR_TYPE_ERROR", <<>>)
    ELSE NoError

\* [err, data]; contact_type is the class of the argument, contact its
\* content when it is a Record
AddressBook_add_record(contacts, contact_type, contact) ==
    LET bad_type == validate_argument_type(contact_type, "Record")
        err == ensure_contact_not_in_contacts_storage(contact.name, contacts)
    IN IF bad_type # NoError THEN [err |-> bad_type, data |-> contacts]
       ELSE IF err # NoError THEN [err |-> err, data |-> contacts]
       ELSE [err |-> NoError, data |-> dict_setitem(contacts, contact.name, contact)]

\* find without the check of an empty store
AddressBook_find_no_empty_check(contacts, username) ==
    LET found == ensure_contact_is_in_contacts_storage(username, contacts) IN
    IF found.err # NoError THEN [err |-> found.err, ret |-> <<>>]
    ELSE [err |-> NoError, ret |-> <<contacts[found.idx].rec>>]

\* [err, ret]: ret is <<the contact>> on success
AddressBook_find(contacts, username) ==
    LET empty == ensure_contacts_storage_not_empty(contacts)
        found == ensure_contact_is_in_contacts_storage(username, contacts)
    IN IF empty # NoError THEN [err |-> empty, ret |-> <<>>]
       ELSE IF found.err # NoError THEN [err |-> found.err, ret |-> <<>>]
       ELSE [err |-> NoError, ret |-> <<contacts[found.idx].rec>>]

\* the test of the loop body of find_match on one record
find_match_hit(search_term, rec) ==
    IF str_in(casefold(search_term), casefold(rec.name))
    THEN TRUE
    ELSE \E i \in 1..Len(rec.phones) :
            str_in(casefold(search_term), casefold(rec.phones[i]))

\* the loop body with two independent tests, one for the name and one for
\* the phones, each appending the record
find_match_appends_twice(search_term, rec) ==
    (IF str_in(casefold(search_term), casefold(rec.name)) THEN 1 ELSE 0)
    + (IF \E i \in 1..Len(rec.phones) :
              str_in(casefold(search_term), casefold(rec.phones[i]))
       THEN 1 ELSE 0)

\* how many times the loop body appends the record
find_match_appends(search_term, rec) == IF find_match_hit(search_term, rec) THEN 1 ELSE 0

RECURSIVE find_match_loop(_, _)
find_match_loop(search_term, contacts) ==
    IF contacts = <<>> THEN <<>>
    ELSE [i \in 1..find_match_appends(search_term, Head(contacts).rec) |->
             Head(contacts).rec]
         \o find_match_loop(search_term, Tail(contacts))

\* find_match raising the not-found failure when nothing matches
AddressBook_find_match_raises_no_match(contacts, search_term) ==
    LET empty == ensure_contacts_storage_not_empty(contacts)
        matches == IF search_term = <<>>
                   THEN [i \in 1..Len(contacts) |-> contacts[i].rec]
                   ELSE find_match_loop(search_term, contacts)
    IN IF empty # NoError THEN [err |-> empty, ret |-> <<>>]
       ELSE IF matches = <<>>
       THEN [err |-> ValidationError("MSG_CONTACT_NOT_FOUND", <<search_term>>),
             ret |-> <<>>]
       ELSE [err |-> NoError, ret |-> matches]

\* [err, ret]
AddressBook_find_match(contacts, search_term) ==
    LET empty == ensure_contacts_storage_not_empty(contacts) IN
    IF empty # NoError THEN [err |-> empty, ret |-> <<>>]
    ELSE IF search_term = <<>>
         THEN [err |-> NoError, ret |-> [i \in 1..Len(contacts) |-> contacts[i].rec]]
         ELSE [err |-> NoError, ret |-> find_match_loop(search_term, contacts)]

\* delete removing the contact found by the case-insensitive comparison
AddressBook_delete_casefold(contacts, username) ==
    LET m == first_casefold_match(username, contacts) IN
    IF m = 0
    THEN [err |-> ValidationError("MSG_CONTACT_NOT_FOUND", <<username>>),
          data |-> contacts]
    ELSE [err |-> NoError, data |-> dict_pop(contacts, contacts[m].key)]

\* [err, data]
AddressBook_delete(contacts, username) ==
    LET found == ensure_contact_is_in_contacts_storage(username, contacts) IN
    IF found.err # NoError THEN [err |-> found.err, data |-> contacts]
    ELSE [err |-> NoError, data |-> dict_pop(contacts, username)]

\* __str__: [err, ret]; the formatted text is not modelled, ret lists the
\* contacts it shows
AddressBook_str(contacts) ==
    LET empty == ensure_contacts_storage_not_empty(contacts) IN
    IF empty # NoError THEN [err |-> empty, ret |-> <<>>]
    ELSE [err |-> NoError, ret |-> [i \in 1..Len(contacts) |-> contacts[i].rec]]

(***************************************************************************)
(* services/address_book/birthday.py and Record.add_birthday               *)
(***************************************************************************)
\* validators/args_validators.py with a tuple of expected types
validate_argument_types(obj_type, expected_types) ==
    IF obj_type \notin expected_types
    THEN TypeError("ERR_TYPE_ERROR", <<>>)
    ELSE NoError

\* an argument of Birthday: [type, str, date], type the class of the object
\* given, str its text when it is a str, date its date when it is a date
str_arg(s) == [type |-> "str", str |-> s, date |-> NoDate]
date_arg(date_obj) == [type |-> "date", str |-> <<>>, date |-> date_obj]
int_arg(n) == [type |-> "int", str |-> <<>>, date |-> NoDate]

\* a Birthday that takes no date after today
Birthday_validate_and_parse_date_past_only(date_value) ==
    LET bad_type == validate_argument_types(date_value.type, {"str", "date"})
        parsed == IF date_value.type = "str"
                  THEN validate_date_format(date_value.str)
                  ELSE [err |-> NoError, value |-> date_value.date]
    IN IF bad_type # NoError THEN [err |-> bad_type, value |-> NoDate]
       ELSE IF parsed.err # NoError THEN parsed
       ELSE IF validate_birthday_is_in_the_past(parsed.value) # NoError
       THEN [err |-> validate_birthday_is_in_the_past(parsed.value), value |-> NoDate]
       ELSE parsed

\* Birthday._validate_and_parse_date(date_value): [err, value]
Birthday_validate_and_parse_date(date_value) ==
    LET bad_type == validate_argument_types(date_value.type, {"str", "date"}) IN
    IF bad_type # NoError THEN [err |-> bad_type, value |-> NoDate]
    ELSE IF date_value.type = "str" THEN validate_date_format(date_value.str)
    ELSE [err |-> NoError, value |-> date_value.date]

\* Birthday(date_value): [err, value]
Birthday(date_value) == Birthday_validate_and_parse_date(date_value)

\* the value setter of Birthday on the object self: [err, field]
Birthday_value_setter(self, date_value) ==
    LET date_obj == Birthday_validate_and_parse_date(date_value) IN
    [err |-> date_obj.err,
     field |-> IF date_obj.err = NoError THEN [self EXCEPT !.value = date_obj.value]
               ELSE self]

\* a check that finds no birthday a duplicate
ensure_birthday_in_contact_not_duplicate_off(birthday, rec) == NoError

\* validators/contact_validators.py; rec.birthday is <<value>> when it is set
ensure_birthday_in_contact_not_duplicate(birthday, rec) ==
    IF birthday = rec.birthday[1]
    THEN ValidationError("MSG_BIRTHDAY_DUPLICATE",
                         <<rec.name, format_date_str(rec.birthday[1])>>)
    ELSE NoError

\* Record.add_birthday(date): [err, rec]
Record_add_birthday(rec, date_str) ==
    LET date_obj == validate_date_format(date_str)
        future == validate_birthday_is_in_the_past(date_obj.value)
        new_birthday == Birthday(date_arg(date_obj.value))
        dup == ensure_birthday_in_contact_not_duplicate(new_birthday.value, rec)
    IN IF date_obj.err # NoError THEN [err |-> date_obj.err, rec |-> rec]
       ELSE IF future # NoError THEN [err |-> future, rec |-> rec]
       ELSE IF new_birthday.err # NoError THEN [err |-> new_birthday.err, rec |-> rec]
       ELSE IF rec.birthday = <<>>
       THEN [err |-> NoError, rec |-> [rec EXCEPT !.birthday = <<new_birthday.value>>]]
       ELSE IF dup # NoError THEN [err |-> dup, rec |-> rec]
       ELSE [err |-> NoError, rec |-> [rec EXCEPT !.birthday = <<new_birthday.value>>]]

(***************************************************************************)
(* AddressBook.get_upcoming_birthdays                                      *)
(***************************************************************************)
\* date.replace(year, month, day): NoDate where replace raises ValueError
date_replace(year, month, day) ==
    IF date_is_valid(year, month, day) THEN date(year, month, day) ELSE NoDate

\* birthday_this_year as first computed: the birthday in the year of today_obj
birthday_this_year(birthday, today_obj) ==
    IF birthday.month = 2 /\ birthday.day = 29
    THEN IF is_leap_year(today_obj.year)
         THEN date_replace(today_obj.year, birthday.month, birthday.day)
         ELSE date_replace(today_obj.year, 3, 1)
    ELSE date_replace(today_obj.year, birthday.month, birthday.day)

\* birthday_this_year once a passed occurrence is moved to the next year
birthday_next(this_year, today_obj) ==
    IF date_lt(this_year, today_obj)
    THEN IF this_year.month = 2 /\ this_year.day = 29
         THEN IF ~is_leap_year(today_obj.year + 1)
              THEN date_replace(today_obj.year + 1, 3, 1)
              ELSE date_replace(today_obj.year + 1, this_year.month, this_year.day)
         ELSE date_replace(today_obj.year + 1, this_year.month, this_year.day)
    ELSE this_year

\* from_date <= birthday_this_year <= till_date
is_in_upcoming_range(birthday_date, today_obj, upcoming_period_days) ==
    /\ date_le(today_obj, birthday_date)
    /\ date_le(birthday_date, date_plus_days(today_obj, upcoming_period_days))

\* a move of the Saturdays only
congratulation_date_saturday_only(birthday_date) ==
    IF weekday(birthday_date) = 5 THEN date_plus_days(birthday_date, 2)
    ELSE birthday_date

\* the day of the congratulation: the Monday after a Saturday or a Sunday
congratulation_date(birthday_date) ==
    IF weekday(birthday_date) = 5 THEN date_plus_days(birthday_date, 2)
    ELSE IF weekday(birthday_date) = 6 THEN date_plus_days(birthday_date, 1)
    ELSE birthday_date

\* the characters in the order of their code points
CodePoints ==
    <<"\t", "\n", " ", "+", "-", "0", "1", "2", "3", "4", "5", "6", "7", "8", "9">>
        \o Upper \o Lower

ord(c) == CHOOSE i \in 1..Len(CodePoints) : CodePoints[i] = c

\* a <= b on two str
RECURSIVE str_le(_, _)
str_le(a, b) ==
    IF a = <<>> THEN TRUE
    ELSE IF b = <<>> THEN FALSE
    ELSE IF Head(a) = Head(b) THEN str_le(Tail(a), Tail(b))
    ELSE ord(Head(a)) < ord(Head(b))

\* a sort key with the name as it is written
sort_key_le_plain(a, b) ==
    \/ date_lt(a.congratulation, b.congratulation)
    \/ /\ a.congratulation = b.congratulation
       /\ str_le(a.name, b.name)

\* the sort key (user["congratulation"], user["name"].casefold()): a <= b
sort_key_le(a, b) ==
    \/ date_lt(a.congratulation, b.congratulation)
    \/ /\ a.congratulation = b.congratulation
       /\ str_le(casefold(a.name), casefold(b.name))

\* list.sort(key): a stable sort
RECURSIVE list_sort(_)
list_sort(s) ==
    IF s = <<>> THEN <<>>
    ELSE LET front == list_sort(SubSeq(s, 1, Len(s) - 1))
             x == s[Len(s)]
             k == Cardinality({i \in 1..Len(front) : sort_key_le(front[i], x)})
         IN SubSeq(front, 1, k) \o <<x>> \o SubSeq(front, k + 1, Len(front))

\* a loop body that takes the records by their congratulation date
upcoming_of_by_congratulation(rec, today_obj, upcoming_period_days) ==
    LET this_year == birthday_this_year(rec.birthday[1], today_obj)
        next == birthday_next(this_year, today_obj)
    IN [name |-> rec.name,
        birthday |-> rec.birthday[1],
        this_year |-> this_year,
        next |-> next,
        appended |-> is_in_upcoming_range(congratulation_date(next), today_obj,
                                          upcoming_period_days),
        congratulation |-> congratulation_date(next)]

\* the body of the loop for one record that has a birthday: the locals
\* birthday_this_year before and after the move to the next year, whether
\* the record is appended, and the dict appended
upcoming_of(rec, today_obj, upcoming_period_days) ==
    LET this_year == birthday_this_year(rec.birthday[1], today_obj)
        next == birthday_next(this_year, today_obj)
    IN [name |-> rec.name,
        birthday |-> rec.birthday[1],
        this_year |-> this_year,
        next |-> next,
        appended |-> next # NoDate
                       /\ is_in_upcoming_range(next, today_obj, upcoming_period_days),
        congratulation |-> IF next # NoDate THEN congratulation_date(next) ELSE NoDate]

\* the loop over self.data.values(): the locals of each pass that has a birthday
upcoming_passes(contacts, today_obj, upcoming_period_days) ==
    LET with_birthday == SelectSeq(contacts, LAMBDA e : e.rec.birthday # <<>>) IN
    [i \in 1..Len(with_birthday) |->
        upcoming_of(with_birthday[i].rec, today_obj, upcoming_period_days)]

\* user_congratulations as the loop leaves it
user_congratulations(passes) ==
    LET appended == SelectSeq(passes, LAMBDA p : p.appended) IN
    [i \in 1..Len(appended) |->
        [name |-> appended[i].name,
         congratulation |-> appended[i].congratulation,
         congratulation_actual |-> appended[i].next]]

none_arg == [type |-> "NoneType", str |-> <<>>, date |-> NoDate]

\* get_upcoming_birthdays(today, upcoming_period_days): [err, ret, passes]
AddressBook_get_upcoming_birthdays(contacts, today_arg, upcoming_period_days) ==
    LET today_obj == IF today_arg.type = "NoneType"
                     THEN [err |-> NoError, value |-> today]
                     ELSE parse_date(today_arg.str)
        passes == upcoming_passes(contacts, today_obj.value, upcoming_period_days)
    IN IF today_obj.err # NoError
       THEN [err |-> today_obj.err, ret |-> <<>>, passes |-> <<>>]
       ELSE IF contacts = <<>>
       THEN [err |-> NoError, ret |-> <<>>, passes |-> <<>>]
       ELSE IF \E i \in 1..Len(passes) : passes[i].this_year = NoDate \/ passes[i].next = NoDate
       THEN [err |-> ValueError("day is out of range for month", <<>>),
             ret |-> <<>>, passes |-> <<>>]
       ELSE [err |-> NoError,
             ret |-> list_sort(user_congratulations(passes)),
             passes |-> passes]

(***************************************************************************)
(* decorators/service_error.py and services/contacts_manager.py            *)
(***************************************************************************)
NoMessage == [msg |-> "", args |-> <<>>]

\* a facade result is [err, message, items]: err is the exception leaving
\* the decorated function, message and items the returned dict
service_error(result) ==
    IF result.err.exc \in {"ValidationError", "TypeError"}
    THEN [result EXCEPT !.err = NoError,
                        !.message = [msg |-> result.err.msg, args |-> result.err.args],
                        !.items = <<>>]
    ELSE result

show_all(book) ==
    LET empty == ensure_contacts_storage_not_empty(book) IN
    service_error(
        IF empty # NoError
        THEN [err |-> empty, message |-> NoMessage, items |-> <<>>]
        ELSE [err |-> NoError, message |-> NoMessage,
              items |-> [i \in 1..Len(book) |-> book[i].rec]])

\* the exception of a call of a method the object does not have
AttributeError(msg, args) == [exc |-> "AttributeError", msg |-> msg, args |-> args]

\* a facade function leaving by an exception, and one returning a dict: the
\* result is [err, message, items, data], data being the store after the call
facade_raise(err, book) ==
    [err |-> err, message |-> NoMessage, items |-> <<>>, data |-> book]

facade_return(msg, args, items, book) ==
    [err |-> NoError, message |-> [msg |-> msg, args |-> args], items |-> items,
     data |-> book]

\* a lookup of the key that does not tell the letter cases apart
dict_get_casefold(book, key) ==
    LET hits == SelectSeq(book, LAMBDA e : casefold(e.key) = casefold(key)) IN
    IF hits = <<>> THEN <<>> ELSE <<hits[1].rec>>

\* UserDict.get(key): <<the record>> stored under exactly this key, or <<>>
dict_get(book, key) ==
    LET hits == SelectSeq(book, LAMBDA e : e.key = key) IN
    IF hits = <<>> THEN <<>> ELSE <<hits[1].rec>>

\* the store after a method changed the record object it holds under key
record_mutated(book, key, rec) ==
    [i \in 1..Len(book) |->
        IF book[i].key = key THEN [key |-> key, rec |-> rec] ELSE book[i]]

\* add_contact storing the new record before it adds the phone to it
add_contact_stores_first(book, username, phone_number) ==
    LET contact == dict_get(book, username)
        added == Record_add_phone(contact[1], phone_number)
        new == Record(username)
        stored == AddressBook_add_record(book, "Record", new.rec)
        new_added == Record_add_phone(new.rec, phone_number)
    IN service_error(
        IF contact # <<>>
        THEN IF added.err # NoError THEN facade_raise(added.err, book)
             ELSE facade_return("MSG_CONTACT_UPDATED MSG_PHONE_ADDED", <<>>, <<>>,
                                record_mutated(book, username, added.rec))
        ELSE IF new.err # NoError THEN facade_raise(new.err, book)
        ELSE IF stored.err # NoError THEN facade_raise(stored.err, book)
        ELSE IF new_added.err # NoError THEN facade_raise(new_added.err, stored.data)
        ELSE facade_return("MSG_CONTACT_ADDED", <<>>, <<>>,
                           record_mutated(stored.data, new.rec.name, new_added.rec)))

\* add_contact(username, phone_number) on the store book
add_contact(book, username, phone_number) ==
    LET contact == dict_get(book, username)
        added == Record_add_phone(contact[1], phone_number)
        new == Record(username)
        new_added == Record_add_phone(new.rec, phone_number)
        stored == AddressBook_add_record(book, "Record", new_added.rec)
    IN service_error(
        IF contact # <<>>
        THEN IF added.err # NoError THEN facade_raise(added.err, book)
             ELSE facade_return("MSG_CONTACT_UPDATED MSG_PHONE_ADDED", <<>>, <<>>,
                                record_mutated(book, username, added.rec))
        ELSE IF new.err # NoError THEN facade_raise(new.err, book)
        ELSE IF new_added.err # NoError THEN facade_raise(new_added.err, book)
        ELSE IF stored.err # NoError THEN facade_raise(stored.err, book)
        ELSE facade_return("MSG_CONTACT_ADDED", <<>>, <<>>, stored.data))

\* change_contact(username, prev_phone_number, new_phone_number)
change_contact(book, username, prev_phone_number, new_phone_number) ==
    LET contact == AddressBook_find(book, username)
        edited == Record_edit_phone(contact.ret[1], prev_phone_number, new_phone_number)
    IN service_error(
        IF contact.err # NoError THEN facade_raise(contact.err, book)
        ELSE IF edited.err # NoError THEN facade_raise(edited.err, book)
        ELSE facade_return("MSG_PHONE_UPDATED", <<>>, <<>>,
                           record_mutated(book, username, edited.rec)))

\* remove_contact(username): AddressBook has no method remove
remove_contact(book, username) ==
    LET empty == ensure_contacts_storage_not_empty(book) IN
    service_error(
        IF empty # NoError THEN facade_raise(empty, book)
        ELSE facade_raise(AttributeError("'AddressBook' object has no attribute 'remove'",
                                         <<>>), book))

\* matches.sort(key=lambda record: record.name.value.casefold())
RECURSIVE sort_by_name(_)
sort_by_name(s) ==
    IF s = <<>> THEN <<>>
    ELSE LET front == sort_by_name(SubSeq(s, 1, Len(s) - 1))
             x == s[Len(s)]
             k == Cardinality({i \in 1..Len(front) :
                                  str_le(casefold(front[i].name), casefold(x.name))})
         IN SubSeq(front, 1, k) \o <<x>> \o SubSeq(front, k + 1, Len(front))

\* show_phone(search_term)
show_phone(book, search_term) ==
    LET matches == AddressBook_find_match(book, search_term)
        sorted == sort_by_name(matches.ret)
    IN service_error(
        IF matches.err # NoError THEN facade_raise(matches.err, book)
        ELSE IF matches.ret = <<>>
        THEN facade_return("MSG_SHOW_NO_MATCHES", <<>>, <<>>, book)
        ELSE facade_return("MSG_SHOW_FOUND_MATCHES", <<search_term>>,
                           [i \in 1..Len(sorted) |->
                               [name |-> sorted[i].name, phones |-> sorted[i].phones]],
                           book))

\* remove_phone(username, phone_number)
remove_phone(book, username, phone_number) ==
    LET contact == AddressBook_find(book, username)
        removed == Record_remove_phone(contact.ret[1], phone_number)
    IN service_error(
        IF contact.err # NoError THEN facade_raise(contact.err, book)
        ELSE IF removed.err # NoError THEN facade_raise(removed.err, book)
        ELSE facade_return("MSG_CONTACT_UPDATED MSG_PHONE_DELETED", <<>>, <<>>,
                           record_mutated(book, username, removed.rec)))

\* add_birthday(username, date)
add_birthday(book, username, date_str) ==
    LET contact == AddressBook_find(book, username)
        was_empty == contact.ret[1].birthday = <<>>
        added == Record_add_birthday(contact.ret[1], date_str)
    IN service_error(
        IF contact.err # NoError THEN facade_raise(contact.err, book)
        ELSE IF added.err # NoError THEN facade_raise(added.err, book)
        ELSE facade_return(IF was_empty THEN "MSG_BIRTHDAY_ADDED"
                                        ELSE "MSG_BIRTHDAY_UPDATED",
                           <<>>, <<>>, record_mutated(book, username, added.rec)))

\* date.isoformat(), for the years from 1000 on
isoformat(date_obj) ==
    zero_padded(date_obj.year, 4) \o <<"-">> \o zero_padded(date_obj.month, 2)
        \o <<"-">> \o zero_padded(date_obj.day, 2)

\* show_birthday(username)
show_birthday(book, username) ==
    LET contact == AddressBook_find(book, username) IN
    service_error(
        IF contact.err # NoError THEN facade_raise(contact.err, book)
        ELSE IF contact.ret[1].birthday = <<>>
        THEN facade_return("MSG_BIRTHDAY_NO_BIRTHDAY", <<username>>, <<>>, book)
        ELSE facade_return("", <<>>,
                           <<[name |-> username,
                              birthday |-> isoformat(contact.ret[1].birthday[1])]>>,
                           book))

\* remove_birthday(username): Record has no method remove_birthday
remove_birthday(book, username) ==
    LET contact == AddressBook_find(book, username) IN
    service_error(
        IF contact.err # NoError THEN facade_raise(contact.err, book)
        ELSE facade_raise(AttributeError("'Record' object has no attribute 'remove_birthday'",
                                         <<>>), book))

\* show_upcoming_birthdays()
show_upcoming_birthdays(book) ==
    LET matches == AddressBook_get_upcoming_birthdays(book, none_arg, 7) IN
    service_error(
        IF matches.err # NoError THEN facade_raise(matches.err, book)
        ELSE IF matches.ret = <<>>
        THEN facade_return("MSG_BIRTHDAYS_NO_UPCOMING", <<>>, <<>>, book)
        ELSE facade_return("MSG_BIRTHDAYS_FOUND_MATCHES", <<>>,
                           [i \in 1..Len(matches.ret) |->
                               [name |-> matches.ret[i].name,
                                congratulation |->
                                    isoformat(matches.ret[i].congratulation),
                                congratulation_actual |->
                                    isoformat(matches.ret[i].congratulation_actual)]],
                           book))

(***************************************************************************)
(* persistence/pickle_io.py: the snapshot is a sequence of bytes. pickle   *)
(* writes the state of every object (the dict of the store, the fields of  *)
(* each Record) and builds the objects again from it, without calling      *)
(* __init__: no validation runs at load time                               *)
(***************************************************************************)
OP_PROTO == 128
OP_STOP == 46
OP_NONE == 78
OP_DICT == 125
OP_LIST == 93
OP_STR == 140
OP_DATE == 67
OP_OBJ == 129

chr(n) == CodePoints[n]

\* the concatenation of the sequences of a sequence
RECURSIVE flatten(_)
flatten(ss) == IF ss = <<>> THEN <<>> ELSE ss[1] \o flatten(Tail(ss))

dump_str(str) == <<OP_STR, Len(str)>> \o [i \in 1..Len(str) |-> ord(str[i])]

\* a date written with one byte for its year
dump_date_short_year(date_obj) ==
    <<OP_DATE, 0, date_obj.year % 256, date_obj.month, date_obj.day>>

\* date.__reduce__: two bytes of the year, the month and the day
dump_date(date_obj) ==
    <<OP_DATE, date_obj.year \div 256, date_obj.year % 256, date_obj.month,
      date_obj.day>>

dump_record(rec) ==
    <<OP_OBJ>> \o dump_str(rec.name)
        \o (IF rec.birthday = <<>> THEN <<OP_NONE>> ELSE dump_date(rec.birthday[1]))
        \o <<OP_LIST, Len(rec.phones)>>
        \o flatten([i \in 1..Len(rec.phones) |-> dump_str(rec.phones[i])])

\* pickle.dump(book, fh): the bytes written
pickle_dumps(book) ==
    <<OP_PROTO, OP_DICT, Len(book)>>
        \o flatten([i \in 1..Len(book) |->
                       dump_str(book[i].key) \o dump_record(book[i].rec)])
        \o <<OP_STOP>>

\* the readers take the bytes and a position, and give [ok, value, next]
load_failed == [ok |-> FALSE, value |-> <<>>, next |-> 0]

load_str(bytes, pos) ==
    IF pos + 1 > Len(bytes) \/ bytes[pos] # OP_STR THEN load_failed
    ELSE LET n == bytes[pos + 1] IN
         IF pos + 1 + n > Len(bytes) THEN load_failed
         ELSE [ok |-> TRUE,
               value |-> [i \in 1..n |-> chr(bytes[pos + 1 + i])],
               next |-> pos + 2 + n]

\* None gives <<>>, a date <<the date>>
load_birthday(bytes, pos) ==
    IF pos > Len(bytes) THEN load_failed
    ELSE IF bytes[pos] = OP_NONE THEN [ok |-> TRUE, value |-> <<>>, next |-> pos + 1]
    ELSE IF bytes[pos] # OP_DATE \/ pos + 4 > Len(bytes) THEN load_failed
    ELSE [ok |-> TRUE,
          value |-> <<date(bytes[pos + 1] * 256 + bytes[pos + 2], bytes[pos + 3],
                           bytes[pos + 4])>>,
          next |-> pos + 5]

\* count strings from pos on
RECURSIVE load_strs(_, _, _)
load_strs(bytes, pos, count) ==
    IF count = 0 THEN [ok |-> TRUE, value |-> <<>>, next |-> pos]
    ELSE LET first == load_str(bytes, pos)
             rest == load_strs(bytes, first.next, count - 1)
         IN IF ~first.ok \/ ~rest.ok THEN load_failed
            ELSE [ok |-> TRUE, value |-> <<first.value>> \o rest.value,
                  next |-> rest.next]

load_record(bytes, pos) ==
    IF pos > Len(bytes) \/ bytes[pos] # OP_OBJ THEN load_failed
    ELSE LET name == load_str(bytes, pos + 1)
             birthday == load_birthday(bytes, name.next)
             count == birthday.next
             phones == load_strs(bytes, count + 2, bytes[count + 1])
         IN IF ~name.ok \/ ~birthday.ok THEN load_failed
            ELSE IF count + 1 > Len(bytes) \/ bytes[count] # OP_LIST THEN load_failed
            ELSE IF ~phones.ok THEN load_failed
            ELSE [ok |-> TRUE,
                  value |-> [name |-> name.value, birthday |-> birthday.value,
                             phones |-> phones.value],
                  next |-> phones.next]

\* count items of the dict from pos on
RECURSIVE load_items(_, _, _)
load_items(bytes, pos, count) ==
    IF count = 0 THEN [ok |-> TRUE, value |-> <<>>, next |-> pos]
    ELSE LET key == load_str(bytes, pos)
             rec == load_record(bytes, key.next)
             rest == load_items(bytes, rec.next, count - 1)
         IN IF ~key.ok THEN load_failed
            ELSE IF ~rec.ok THEN load_failed
            ELSE IF ~rest.ok THEN load_failed
            ELSE [ok |-> TRUE,
                  value |-> <<[key |-> key.value, rec |-> rec.value]>> \o rest.value,
                  next |-> rest.next]

\* pickle.load(fh): [err, book]; bytes that are no whole pickle raise an
\* exception (UnpicklingError, EOFError) that is no OSError
pickle_loads(bytes) ==
    LET bad == [err |-> [exc |-> "UnpicklingError", msg |-> "", args |-> <<>>],
                book |-> <<>>]
    IN IF Len(bytes) < 4 \/ bytes[1] # OP_PROTO \/ bytes[2] # OP_DICT THEN bad
       ELSE LET items == load_items(bytes, 4, bytes[3]) IN
            IF ~items.ok THEN bad
            ELSE IF items.next # Len(bytes) \/ bytes[items.next] # OP_STOP THEN bad
            ELSE [err |-> NoError, book |-> items.value]

(***************************************************************************)
(* persistence/file_handler.py and the load and save of contacts_manager   *)
(***************************************************************************)
PersistenceError(msg, args) == [exc |-> "PersistenceError", msg |-> msg, args |-> args]

\* what the file system does to open(): nothing, or one of the exceptions
FileFaults == {"none", "PermissionError", "IsADirectoryError", "OSError"}

\* a load that starts with an empty store whenever the file cannot be read
load_address_book_forgiving(file, fault) ==
    LET loaded == pickle_loads(file.bytes) IN
    IF fault # "none" THEN [err |-> NoError, book |-> <<>>, outcome |-> fault]
    ELSE IF ~file.exists
    THEN [err |-> NoError, book |-> <<>>, outcome |-> "FileNotFoundError"]
    ELSE IF loaded.err # NoError
    THEN [err |-> NoError, book |-> <<>>, outcome |-> loaded.err.exc]
    ELSE [err |-> NoError, book |-> loaded.book, outcome |-> "loaded"]

\* load_address_book(): [err, book, outcome], outcome naming the exception
\* pickle_io.load_data raised, "loaded" when it raised none
load_address_book(file, fault) ==
    LET loaded == pickle_loads(file.bytes) IN
    IF fault = "PermissionError"
    THEN [err |-> PersistenceError("MSG_FILE_NO_PERMISSION", <<>>), book |-> <<>>,
          outcome |-> fault]
    ELSE IF fault \in {"IsADirectoryError", "OSError"}
    THEN [err |-> PersistenceError("MSG_FILE_ERR_UNEXPECTED_ERR", <<"loading">>),
          book |-> <<>>, outcome |-> fault]
    ELSE IF ~file.exists
    THEN [err |-> NoError, book |-> <<>>, outcome |-> "FileNotFoundError"]
    ELSE IF loaded.err # NoError
    THEN [err |-> PersistenceError("MSG_FILE_ERR_UNEXPECTED_ERR", <<"loading">>),
          book |-> <<>>, outcome |-> loaded.err.exc]
    ELSE [err |-> NoError, book |-> loaded.book, outcome |-> "loaded"]

\* the file after open(filename, "wb") and nothing written
file_truncated(file) ==
    [file EXCEPT !.exists = TRUE, !.bytes = <<>>, !.writes = @ + 1]

\* save_address_book(book): [err, file]; a PermissionError or an
\* IsADirectoryError is raised by open() and leaves the file, an OSError of
\* the write leaves the file opened and empty
save_address_book(book, file, fault) ==
    IF fault = "PermissionError"
    THEN [err |-> PersistenceError("MSG_FILE_NO_PERMISSION", <<>>), file |-> file]
    ELSE IF fault = "IsADirectoryError"
    THEN [err |-> PersistenceError("MSG_FILE_ERR_UNEXPECTED_ERR", <<"saving">>),
          file |-> file]
    ELSE IF fault = "OSError"
    THEN [err |-> PersistenceError("MSG_FILE_ERR_UNEXPECTED_ERR", <<"saving">>),
          file |-> file_truncated(file)]
    ELSE [err |-> NoError,
          file |-> [exists |-> TRUE, bytes |-> pickle_dumps(book), saved |-> book,
                    writes |-> file.writes + 1]]

\* validators/contact_validators.py ensure_contacts_storage_is_loaded, as the
\* docstring of save_contacts describes it: a ValidationError is raised when
\* the store was not loaded
ensure_contacts_storage_is_loaded(loaded) ==
    IF ~loaded THEN ValidationError("MSG_CONTACTS_NOT_LOADED", <<>>) ELSE NoError

\* save_contacts(): [err, file, attempted], attempted telling that
\* save_address_book was called
save_contacts(loaded, book, file, fault) ==
    LET not_loaded == ensure_contacts_storage_is_loaded(loaded)
        saved == save_address_book(book, file, fault)
    IN IF not_loaded # NoError
       THEN [err |-> not_loaded, file |-> file, attempted |-> FALSE]
       ELSE [err |-> saved.err, file |-> saved.file, attempted |-> TRUE]

(***************************************************************************)
(* cli/command.py, utils/input_parser.py, cli/command_handlers.py, main.py *)
(***************************************************************************)
\* class Command(StrEnum)
Command_HELLO == <<"h","e","l","l","o">>
Command_ALL == <<"a","l","l">>
Command_ADD == <<"a","d","d">>
Command_CHANGE == <<"c","h","a","n","g","e">>
Command_DELETE == <<"d","e","l","e","t","e">>
Command_PHONE == <<"p","h","o","n","e">>
Command_DELETE_PHONE == <<"d","e","l","e","t","e","-","p","h","o","n","e">>
Command_ADD_BIRTHDAY == <<"a","d","d","-","b","i","r","t","h","d","a","y">>
Command_SHOW_BIRTHDAY == <<"s","h","o","w","-","b","i","r","t","h","d","a","y">>
Command_DELETE_BIRTHDAY == <<"d","e","l","e","t","e","-","b","i","r","t","h","d","a","y">>
Command_BIRTHDAYS == <<"b","i","r","t","h","d","a","y","s">>
Command_HELP == <<"h","e","l","p">>
Command_EXIT == <<"e","x","i","t">>
Command_CLOSE == <<"c","l","o","s","e">>

\* utils/constants.py MENU_HELP_STR: the first word of every line, and the
\* close of the line of exit
MENU_HELP_STR ==
    <<Command_HELLO, Command_ALL, Command_ADD, Command_CHANGE, Command_DELETE,
      Command_PHONE, Command_DELETE_PHONE, Command_ADD_BIRTHDAY,
      Command_SHOW_BIRTHDAY, Command_DELETE_BIRTHDAY, Command_BIRTHDAYS,
      Command_HELP, Command_EXIT, Command_CLOSE>>

\* str.lower()
str_lower(s) == [i \in 1..Len(s) |-> IF s[i] \in Chars THEN casefold_char(s[i]) ELSE s[i]]

\* str.split(): the words between the whitespace
RECURSIVE split(_)
split(s) ==
    LET t == lstrip(s)
        gaps == {k \in 1..Len(t) : t[k] \in Whitespace}
        stop == IF gaps = {} THEN Len(t) + 1
                ELSE CHOOSE k \in gaps : \A j \in gaps : k <= j
    IN IF t = <<>> THEN <<>>
       ELSE <<SubSeq(t, 1, stop - 1)>> \o split(SubSeq(t, stop, Len(t)))

\* parse_input(user_input): [command, args]
parse_input(user_input) ==
    IF strip(user_input) = <<>> THEN [command |-> <<>>, args |-> <<>>]
    ELSE LET parts == split(strip(user_input)) IN
         [command |-> str_lower(parts[1]), args |-> Tail(parts)]

\* ensure_args_have_n_arguments(args, expected)
ensure_args_have_n_arguments(args, expected) ==
    IF Len(args) # expected \/ \E i \in 1..Len(args) : strip(args[i]) = <<>>
    THEN ValidationError("ERR_ARG_COUNT_ERROR", <<expected>>)
    ELSE NoError

\* decorators/input_error.py: the exceptions it catches become the string
\* the handler returns, any other one leaves the handler
input_error(result) ==
    IF result.err.exc \in {"ValidationError", "KeyError", "IndexError", "ValueError",
                           "TypeError"}
    THEN [result EXCEPT !.err = NoError,
                        !.message = [msg |-> result.err.msg, args |-> result.err.args],
                        !.items = <<>>]
    ELSE result

\* the handlers on the store book: [err, message, items, data]
handle_hello(book) == facade_return("MSG_HELLO_MESSAGE", <<>>, <<>>, book)

handle_all(book) ==
    LET r == show_all(book) IN
    input_error([err |-> r.err, message |-> r.message, items |-> r.items, data |-> book])

handle_add(book, args) ==
    LET bad == ensure_args_have_n_arguments(args, 2) IN
    input_error(IF bad # NoError THEN facade_raise(bad, book)
                ELSE add_contact(book, args[1], args[2]))

handle_change(book, args) ==
    LET bad == ensure_args_have_n_arguments(args, 3) IN
    input_error(IF bad # NoError THEN facade_raise(bad, book)
                ELSE change_contact(book, args[1], args[2], args[3]))

handle_delete(book, args) ==
    LET bad == ensure_args_have_n_arguments(args, 1) IN
    input_error(IF bad # NoError THEN facade_raise(bad, book)
                ELSE remove_contact(book, args[1]))

handle_phone(book, args) ==
    LET bad == ensure_args_have_n_arguments(args, 1) IN
    input_error(IF bad # NoError THEN facade_raise(bad, book)
                ELSE show_phone(book, args[1]))

handle_delete_phone(book, args) ==
    LET bad == ensure_args_have_n_arguments(args, 2) IN
    input_error(IF bad # NoError THEN facade_raise(bad, book)
                ELSE remove_phone(book, args[1], args[2]))

handle_add_birthday(book, args) ==
    LET bad == ensure_args_have_n_arguments(args, 2) IN
    input_error(IF bad # NoError THEN facade_raise(bad, book)
                ELSE add_birthday(book, args[1], args[2]))

handle_show_birthday(book, args) ==
    LET bad == ensure_args_have_n_arguments(args, 1) IN
    input_error(IF bad # NoError THEN facade_raise(bad, book)
                ELSE show_birthday(book, args[1]))

handle_delete_birthday(book, args) ==
    LET bad == ensure_args_have_n_arguments(args, 1) IN
    input_error(IF bad # NoError THEN facade_raise(bad, book)
                ELSE remove_birthday(book, args[1]))

handle_birthdays(book) == input_error(show_upcoming_birthdays(book))

handle_help(book) == facade_return("MENU_HELP_STR", <<>>, <<>>, book)

handle_empty(book) == facade_return("MSG_INVALID_EMPTY_COMMAND", <<>>, <<>>, book)

handle_unknown(book) == facade_return("INVALID_COMMAND_MESSAGE", <<>>, <<>>, book)

\* main.py: the match of the command loop gives the handler of a command
main_match(command) ==
    IF command = Command_HELLO THEN "handle_hello"
    ELSE IF command = Command_ALL THEN "handle_all"
    ELSE IF command = Command_ADD THEN "handle_add"
    ELSE IF command = Command_CHANGE THEN "handle_change"
    ELSE IF command = Command_DELETE THEN "handle_delete"
    ELSE IF command = Command_PHONE THEN "handle_phone"
    ELSE IF command = Command_ADD_BIRTHDAY THEN "handle_add_birthday"
    ELSE IF command = Command_SHOW_BIRTHDAY THEN "handle_show_birthday"
    ELSE IF command = Command_BIRTHDAYS THEN "handle_birthdays"
    ELSE IF command = Command_HELP THEN "handle_help"
    ELSE IF command \in {Command_EXIT, Command_CLOSE} THEN "handle_exit"
    ELSE "handle_unknown"

\* one pass of the loop of main() on the line user_input: the handler the
\* line goes to and what the handler gives
main_loop_body(book, user_input) ==
    LET parsed == parse_input(user_input)
        handler == IF user_input = <<>> THEN "handle_empty"
                   ELSE main_match(parsed.command)
        args == parsed.args
    IN [handler |-> handler,
        result |->
            IF handler = "handle_empty" THEN handle_empty(book)
            ELSE IF handler = "handle_hello" THEN handle_hello(book)
            ELSE IF handler = "handle_all" THEN handle_all(book)
            ELSE IF handler = "handle_add" THEN handle_add(book, args)
            ELSE IF handler = "handle_change" THEN handle_change(book, args)
            ELSE IF handler = "handle_delete" THEN handle_delete(book, args)
            ELSE IF handler = "handle_phone" THEN handle_phone(book, args)
            ELSE IF handler = "handle_add_birthday" THEN handle_add_birthday(book, args)
            ELSE IF handler = "handle_show_birthday" THEN handle_show_birthday(book, args)
            ELSE IF handler = "handle_birthdays" THEN handle_birthdays(book)
            ELSE IF handler = "handle_help" THEN handle_help(book)
            ELSE IF handler = "handle_exit" THEN facade_return("", <<>>, <<>>, book)
            ELSE handle_unknown(book)]

(***************************************************************************)
(* Inputs of the model                                                     *)
(***************************************************************************)
Bob == <<"B","o","b">>
bob == <<"b","o","b">>
Alex == <<"A","l","e","x">>
alex == <<"a","l","e","x">>
K9 == <<"K","9">>
AlexPadded == <<" ","A","l","e","x"," ">>
Zed == <<"Z","e","d">>
OneChar == <<"E">>

Blank == <<" ", " ">>
K9Padded == <<" ","K","9"," ">>
OneCharPadded == <<" ","E"," ">>
JoSmith == <<"J","o"," ","S","m","i","t","h">>
\* names of NAME_MAX_LENGTH characters, of one more, and the first one padded
Fifty == [i \in 1..NAME_MAX_LENGTH |-> "a"]
FiftyOne == Fifty \o <<"b">>
FiftyPadded == <<" ">> \o Fifty \o <<"\t">>

\* strings a Name is made of and assigned
NameValues ==
    {Bob, Alex, AlexPadded, K9, K9Padded, OneChar, OneCharPadded, <<>>, Blank,
     JoSmith, Fifty, FiftyOne, FiftyPadded}

P1 == <<"1","2","3","4","5","6","7","8","9","0">>
P2 == <<"9","8","7","6","5","4","3","2","1","0">>
P1Plus == <<"+">> \o P1
P1Padded == <<" ">> \o P1 \o <<" ">>
PK == <<"K">> \o P1
PShort == <<"1","2","3">>
PEmpty == <<>>
PEleven == P1 \o <<"1">>
PBlank == <<" ", " ">>
PDashed == <<"1","2","3","-","4","5","6","-","7","8","9","0">>

\* the date of the clock when the program starts
Today0 == date(2024, 2, 28)

\* date strings; D_5_05_2005 is 05.05.2005 with the day not padded,
\* D_29_02_2023 names a day 2023 does not have, D_ISO is not in DATE_FORMAT
D_05_05_2005 == <<"0","5",".","0","5",".","2","0","0","5">>
D_5_05_2005 == <<"5",".","0","5",".","2","0","0","5">>
D_06_06_2006 == <<"0","6",".","0","6",".","2","0","0","6">>
D_01_01_1000 == <<"0","1",".","0","1",".","1","0","0","0">>
D_28_02_2024 == <<"2","8",".","0","2",".","2","0","2","4">>
D_29_02_2024 == <<"2","9",".","0","2",".","2","0","2","4">>
D_01_03_2024 == <<"0","1",".","0","3",".","2","0","2","4">>
D_01_01_2200 == <<"0","1",".","0","1",".","2","2","0","0">>
D_29_02_2023 == <<"2","9",".","0","2",".","2","0","2","3">>
D_ISO == <<"2","0","0","5","-","0","5","-","0","5">>

D_01_01_2025 == <<"0","1",".","0","1",".","2","0","2","5">>
D_03_01_2025 == <<"0","3",".","0","1",".","2","0","2","5">>
D_30_12_2025 == <<"3","0",".","1","2",".","2","0","2","5">>
D_25_02_2025 == <<"2","5",".","0","2",".","2","0","2","5">>
D_02_03_2023 == <<"0","2",".","0","3",".","2","0","2","3">>
D_28_02_2100 == <<"2","8",".","0","2",".","2","1","0","0">>
D_04_01_2001 == <<"0","4",".","0","1",".","2","0","0","1">>
D_01_01_2002 == <<"0","1",".","0","1",".","2","0","0","2">>
D_29_02_2000 == <<"2","9",".","0","2",".","2","0","0","0">>
D_05_01_2002 == <<"0","5",".","0","1",".","2","0","0","2">>
D_06_01_2025 == <<"0","6",".","0","1",".","2","0","2","5">>
D_28_12_2024 == <<"2","8",".","1","2",".","2","0","2","4">>

\* dates add_birthday is called with
BirthdayInputs ==
    {D_05_05_2005, D_5_05_2005, D_06_06_2006, D_01_01_1000, D_28_02_2024,
     D_29_02_2024, D_01_03_2024, D_01_01_2200, D_29_02_2023, D_ISO}

\* objects a Birthday is made of and assigned
BirthdayValues ==
    {str_arg(s) : s \in {D_05_05_2005, D_5_05_2005, D_29_02_2024, D_01_01_2200,
                         D_29_02_2023, D_ISO}}
        \cup {date_arg(date(2005, 5, 5)), date_arg(date(2024, 2, 29)),
              date_arg(date(2200, 1, 1)), int_arg(20050505)}

\* usernames Record() is called with
RecordUsernames == {Bob, bob, Alex, K9, AlexPadded, OneChar}
\* phones added to a record before it is given to add_record
ContactPhoneLists == {<<>>, <<P2, PK>>}
\* usernames find and delete are called with
LookupUsernames == {Bob, bob, Alex, alex, K9, AlexPadded, Zed}
\* search terms find_match is called with
SearchTerms == {<<>>, <<"a","L">>, <<"9">>, <<"k","1">>, <<"z","z">>, <<"B">>}
\* phone numbers the record methods are called with
PhoneInputs == {P1, P2, P1Plus, P1Padded, PShort, PEmpty}
\* phone numbers a Phone is made of and assigned
PhoneValues == {P1, P2, P1Plus, P1Padded, PK, PDashed, PShort, PEleven, PEmpty, PBlank}

Alice == <<"A","l","i","c","e">>
David == <<"D","a","v","i","d">>
Eve == <<"E","v","e">>

\* the records given to add_record before get_upcoming_birthdays: David has
\* no birthday, the others are given theirs by add_birthday
BirthdayContacts ==
    {Record(David).rec,
     Record_add_birthday(Record(Alice).rec, D_04_01_2001).rec,
     Record_add_birthday(Record(Bob).rec, D_01_01_2002).rec,
     Record_add_birthday(Record(Eve).rec, D_29_02_2000).rec}

\* records whose birthdays are on a Saturday (Alice) and on a Sunday (alex)
\* in 2025, and on 1 January (Bob)
WeekendContacts ==
    {Record_add_birthday(Record(Alice).rec, D_04_01_2001).rec,
     Record_add_birthday(Record(alex).rec, D_05_01_2002).rec,
     Record_add_birthday(Record(Bob).rec, D_01_01_2002).rec}

\* the argument today of get_upcoming_birthdays: None, or a date string
TodayArgs ==
    {none_arg} \cup
    {str_arg(s) : s \in {D_01_01_2025, D_03_01_2025, D_30_12_2025, D_01_03_2024,
                         D_25_02_2025, D_02_03_2023, D_28_02_2100, D_ISO}}

\* reference dates about the first weekend of 2025; 06.01.2025 is a Monday
WeekendTodayArgs == {str_arg(s) : s \in {D_01_01_2025, D_06_01_2025, D_28_12_2024}}

\* the argument upcoming_period_days of get_upcoming_birthdays
UpcomingPeriods == {0, 7, 364, 365}
WeekendPeriods == {3, 7, 362, 363, 364}

RECURSIVE add_phones(_, _)
add_phones(rec, phone_numbers) ==
    IF phone_numbers = <<>> THEN rec
    ELSE add_phones(Record_add_phone(rec, Head(phone_numbers)).rec, Tail(phone_numbers))

\* the Record objects given to add_record: Record(username) followed by
\* add_phone calls
Contacts ==
    {add_phones(Record(u).rec, pl) :
        u \in {v \in RecordUsernames : Record(v).err = NoError},
        pl \in ContactPhoneLists}

(***************************************************************************)
(* The calls: each action is one call; last records the call, its          *)
(* arguments and its outcome, prev_data and prev_record the objects before *)
(* the call                                                                *)
(***************************************************************************)
\* arguments of the calls of the facade
BobPadded == <<" ","B","o","b"," ">>
FacadeUsernames == {Bob, bob, BobPadded, OneChar}
FacadePhones == {P1, P2, P1Padded, PShort}
FacadeDates == {D_05_05_2005, D_01_01_2200, D_ISO}
FacadeSearchTerms == {<<>>, <<"b">>, <<"9">>}

\* the stores load_contacts() leaves: an empty one and one of one contact
FacadeStores ==
    {<<>>,
     <<[key |-> K9,
        rec |-> [name |-> K9, birthday |-> <<date(2000, 2, 29)>>, phones |-> <<P2>>]]>>}

\* lines the user types
L_hello == <<"H","e","l","l","o">>
L_all == <<"a","l","l">>
L_add_Bob ==
    <<"a","d","d"," ","B","o","b"," ","1","2","3","4","5","6","7","8",
      "9","0">>
L_add_K9 ==
    <<"a","d","d"," ","K","9"," ","9","8","7","6","5","4","3","2","1",
      "0">>
L_add_no_phone == <<"a","d","d"," ","B","o","b">>
L_change ==
    <<"c","h","a","n","g","e"," ","B","o","b"," ","1","2","3","4","5",
      "6","7","8","9","0"," ","9","8","7","6","5","4","3","2","1","0">>
L_delete == <<"d","e","l","e","t","e"," ","B","o","b">>
L_phone == <<"p","h","o","n","e"," ","b">>
L_delete_phone ==
    <<"d","e","l","e","t","e","-","p","h","o","n","e"," ","B","o","b",
      " ","1","2","3","4","5","6","7","8","9","0">>
L_add_birthday ==
    <<"a","d","d","-","b","i","r","t","h","d","a","y"," ","B","o","b",
      " ","0","5",".","0","5",".","2","0","0","5">>
L_show_birthday ==
    <<"s","h","o","w","-","b","i","r","t","h","d","a","y"," ","B","o",
      "b">>
L_delete_birthday ==
    <<"d","e","l","e","t","e","-","b","i","r","t","h","d","a","y"," ",
      "B","o","b">>
L_birthdays == <<"b","i","r","t","h","d","a","y","s">>
L_help == <<"h","e","l","p">>
L_exit == <<"e","x","i","t">>
L_close == <<" ","C","L","O","S","E"," ">>
L_quit == <<"q","u","i","t">>
L_blank == <<" ">>

InputLines ==
    {<<>>, L_hello, L_all, L_add_Bob, L_add_K9, L_add_no_phone, L_change,
     L_delete, L_phone, L_delete_phone, L_add_birthday, L_show_birthday,
     L_delete_birthday, L_birthdays, L_help, L_exit, L_close, L_quit,
     L_blank}

\* the process before main() runs: pc is its position, loaded tells that
\* __book is set, load is the outcome of load_address_book, commands the
\* number of lines read, saves the number of calls of save_address_book,
\* handler the handler of the last line, message and suffix what handle_exit
\* printed, shutdown what began the shutdown, run the number of the run,
\* writes0 the number of writes of the file when the run began (history)
NoApp ==
    [pc |-> "start", loaded |-> FALSE, load |-> "none", commands |-> 0, saves |-> 0,
     handler |-> "none", line |-> <<>>, message |-> "", suffix |-> "",
     shutdown |-> "none", run |-> 1, writes0 |-> 0]

\* no snapshot file: bytes is the content of the file, saved the store of the
\* last save that was completed (history), writes the number of times the
\* file was opened for writing (history)
NoDisk == [exists |-> FALSE, bytes |-> <<>>, saved |-> <<>>, writes |-> 0]

NoCall == [op |-> "none", username |-> <<>>, contact |-> <<>>, phone |-> <<>>,
           new_phone |-> <<>>, term |-> <<>>, err |-> NoError, ret |-> <<>>,
           message |-> NoMessage, date |-> <<>>, arg |-> str_arg(<<>>),
           days |-> 0, passes |-> <<>>]

\* Record(username) raising: no record is made, nothing is added
Call_Record_fails ==
    \E u \in RecordUsernames :
        /\ Record(u).err # NoError
        /\ last' = [NoCall EXCEPT !.op = "Record", !.username = u, !.err = Record(u).err]
        /\ prev_data' = data
        /\ UNCHANGED <<data, record, prev_record, emptied, field, prev_field, today, app, disk>>

Call_add_record ==
    \E c \in Contacts :
        LET r == AddressBook_add_record(data, "Record", c) IN
        /\ Len(r.data) <= MaxRecords
        /\ data' = r.data
        /\ last' = [NoCall EXCEPT !.op = "add_record", !.contact = <<c>>, !.err = r.err]
        /\ prev_data' = data
        /\ emptied' = IF r.err = NoError THEN FALSE ELSE emptied
        /\ UNCHANGED <<record, prev_record, field, prev_field, today, app, disk>>

Call_add_record_object ==
    LET r == AddressBook_add_record(data, "object", NoRecord) IN
    /\ data' = r.data
    /\ last' = [NoCall EXCEPT !.op = "add_record", !.err = r.err]
    /\ prev_data' = data
    /\ UNCHANGED <<record, prev_record, emptied, field, prev_field, today, app, disk>>

Call_find ==
    \E u \in LookupUsernames :
        LET r == AddressBook_find(data, u) IN
        /\ last' = [NoCall EXCEPT !.op = "find", !.username = u, !.err = r.err,
                                  !.ret = r.ret]
        /\ prev_data' = data
        /\ UNCHANGED <<data, record, prev_record, emptied, field, prev_field, today, app, disk>>

Call_find_match ==
    \E t \in SearchTerms :
        LET r == AddressBook_find_match(data, t) IN
        /\ last' = [NoCall EXCEPT !.op = "find_match", !.term = t, !.err = r.err,
                                  !.ret = r.ret]
        /\ prev_data' = data
        /\ UNCHANGED <<data, record, prev_record, emptied, field, prev_field, today, app, disk>>

Call_delete ==
    \E u \in LookupUsernames :
        LET r == AddressBook_delete(data, u) IN
        /\ data' = r.data
        /\ last' = [NoCall EXCEPT !.op = "delete", !.username = u, !.err = r.err]
        /\ prev_data' = data
        /\ emptied' = IF r.err = NoError THEN Len(data) = 1 ELSE emptied
        /\ UNCHANGED <<record, prev_record, field, prev_field, today, app, disk>>

Call_str ==
    LET r == AddressBook_str(data) IN
    /\ last' = [NoCall EXCEPT !.op = "__str__", !.err = r.err, !.ret = r.ret]
    /\ prev_data' = data
    /\ UNCHANGED <<data, record, prev_record, emptied, field, prev_field, today, app, disk>>

Call_show_all ==
    LET r == show_all(data) IN
    /\ last' = [NoCall EXCEPT !.op = "show_all", !.err = r.err, !.ret = r.items,
                              !.message = r.message]
    /\ prev_data' = data
    /\ UNCHANGED <<data, record, prev_record, emptied, field, prev_field, today, app, disk>>

Call_add_phone ==
    \E p \in PhoneInputs :
        LET r == Record_add_phone(record, p) IN
        /\ Len(r.rec.phones) <= MaxPhones
        /\ record' = r.rec
        /\ last' = [NoCall EXCEPT !.op = "add_phone", !.phone = p, !.err = r.err]
        /\ prev_record' = record
        /\ UNCHANGED <<data, prev_data, emptied, field, prev_field, today, app, disk>>

Call_edit_phone ==
    \E p \in PhoneInputs, n \in PhoneInputs :
        LET r == Record_edit_phone(record, p, n) IN
        /\ record' = r.rec
        /\ last' = [NoCall EXCEPT !.op = "edit_phone", !.phone = p, !.new_phone = n,
                                  !.err = r.err]
        /\ prev_record' = record
        /\ UNCHANGED <<data, prev_data, emptied, field, prev_field, today, app, disk>>

Call_remove_phone ==
    \E p \in PhoneInputs :
        LET r == Record_remove_phone(record, p) IN
        /\ record' = r.rec
        /\ last' = [NoCall EXCEPT !.op = "remove_phone", !.phone = p, !.err = r.err]
        /\ prev_record' = record
        /\ UNCHANGED <<data, prev_data, emptied, field, prev_field, today, app, disk>>

\* Phone(phone_number): the object made takes the place of field
Call_Phone ==
    \E p \in PhoneValues :
        LET r == Phone(p) IN
        /\ field' = IF r.err = NoError THEN [cls |-> "Phone", value |-> r.value] ELSE field
        /\ last' = [NoCall EXCEPT !.op = "Phone", !.phone = p, !.err = r.err]
        /\ prev_field' = field
        /\ UNCHANGED <<data, record, prev_data, prev_record, emptied, today, app, disk>>

\* Name(username)
Call_Name ==
    \E u \in NameValues :
        LET r == Name(u) IN
        /\ field' = IF r.err = NoError THEN [cls |-> "Name", value |-> r.value] ELSE field
        /\ last' = [NoCall EXCEPT !.op = "Name", !.username = u, !.err = r.err]
        /\ prev_field' = field
        /\ UNCHANGED <<data, record, prev_data, prev_record, emptied, today, app, disk>>

\* name.value = username
Call_Name_value_setter ==
    \E u \in NameValues :
        LET r == Name_value_setter(field, u) IN
        /\ field.cls = "Name"
        /\ field' = r.field
        /\ last' = [NoCall EXCEPT !.op = "Name.value", !.username = u, !.err = r.err]
        /\ prev_field' = field
        /\ UNCHANGED <<data, record, prev_data, prev_record, emptied, today, app, disk>>

\* phone.value = phone_number
Call_Phone_value_setter ==
    \E p \in PhoneValues :
        LET r == Phone_value_setter(field, p) IN
        /\ field.cls = "Phone"
        /\ field' = r.field
        /\ last' = [NoCall EXCEPT !.op = "Phone.value", !.phone = p, !.err = r.err]
        /\ prev_field' = field
        /\ UNCHANGED <<data, record, prev_data, prev_record, emptied, today, app, disk>>

Call_update_phone ==
    \E p \in PhoneValues :
        LET r == Phone_update_phone(field, p) IN
        /\ field.cls = "Phone"
        /\ field' = r.field
        /\ last' = [NoCall EXCEPT !.op = "update_phone", !.phone = p, !.err = r.err]
        /\ prev_field' = field
        /\ UNCHANGED <<data, record, prev_data, prev_record, emptied, today, app, disk>>

\* a day passes: date.today() gives the next date
Call_tick ==
    /\ toordinal(today) - toordinal(Today0) < MaxClockDays
    /\ today' = date_plus_days(today, 1)
    /\ last' = [NoCall EXCEPT !.op = "tick"]
    /\ prev_record' = record
    /\ prev_field' = field
    /\ UNCHANGED <<data, record, prev_data, emptied, field, app, disk>>

Call_add_birthday ==
    \E d \in BirthdayInputs :
        LET r == Record_add_birthday(record, d) IN
        /\ record' = r.rec
        /\ last' = [NoCall EXCEPT !.op = "add_birthday", !.date = d, !.err = r.err]
        /\ prev_record' = record
        /\ UNCHANGED <<data, prev_data, emptied, field, prev_field, today, app, disk>>

\* Birthday(date_value): the object made takes the place of field
Call_Birthday ==
    \E a \in BirthdayValues :
        LET r == Birthday(a) IN
        /\ field' = IF r.err = NoError THEN [cls |-> "Birthday", value |-> r.value]
                    ELSE field
        /\ last' = [NoCall EXCEPT !.op = "Birthday", !.arg = a, !.err = r.err]
        /\ prev_field' = field
        /\ UNCHANGED <<data, record, prev_data, prev_record, emptied, today, app, disk>>

\* birthday.value = date_value
Call_Birthday_value_setter ==
    \E a \in BirthdayValues :
        LET r == Birthday_value_setter(field, a) IN
        /\ field.cls = "Birthday"
        /\ field' = r.field
        /\ last' = [NoCall EXCEPT !.op = "Birthday.value", !.arg = a, !.err = r.err]
        /\ prev_field' = field
        /\ UNCHANGED <<data, record, prev_data, prev_record, emptied, today, app, disk>>

\* add_record(contact) with a record that went through add_birthday
Call_add_record_with_birthday ==
    \E c \in BirthdayContacts :
        LET r == AddressBook_add_record(data, "Record", c) IN
        /\ Len(r.data) <= MaxRecords
        /\ data' = r.data
        /\ last' = [NoCall EXCEPT !.op = "add_record", !.contact = <<c>>, !.err = r.err]
        /\ prev_data' = data
        /\ emptied' = IF r.err = NoError THEN FALSE ELSE emptied
        /\ UNCHANGED <<record, prev_record, field, prev_field, today, app, disk>>

Call_get_upcoming_birthdays ==
    \E a \in TodayArgs, n \in UpcomingPeriods :
        \E r \in {AddressBook_get_upcoming_birthdays(data, a, n)} :
            /\ last' = [NoCall EXCEPT !.op = "get_upcoming_birthdays", !.arg = a,
                                      !.days = n, !.err = r.err, !.ret = r.ret,
                                      !.passes = r.passes]
            /\ prev_data' = data
            /\ UNCHANGED <<data, record, prev_record, emptied, field, prev_field, today, app, disk>>

Call_add_record_weekend ==
    \E c \in WeekendContacts :
        LET r == AddressBook_add_record(data, "Record", c) IN
        /\ Len(r.data) <= MaxRecords
        /\ data' = r.data
        /\ last' = [NoCall EXCEPT !.op = "add_record", !.contact = <<c>>, !.err = r.err]
        /\ prev_data' = data
        /\ emptied' = IF r.err = NoError THEN FALSE ELSE emptied
        /\ UNCHANGED <<record, prev_record, field, prev_field, today, app, disk>>

Call_get_upcoming_birthdays_weekend ==
    \E a \in WeekendTodayArgs, n \in WeekendPeriods :
        \E r \in {AddressBook_get_upcoming_birthdays(data, a, n)} :
            /\ last' = [NoCall EXCEPT !.op = "get_upcoming_birthdays", !.arg = a,
                                      !.days = n, !.err = r.err, !.ret = r.ret,
                                      !.passes = r.passes]
            /\ prev_data' = data
            /\ UNCHANGED <<data, record, prev_record, emptied, field, prev_field, today, app, disk>>

(***************************************************************************)
(* Specifications                                                          *)
(***************************************************************************)
\* an empty AddressBook and the calls of its methods
\* a call of a facade function: the store is the one the function leaves, and
\* the exception that left the function or the dict returned is in last
facade_called(op, r, username, phone, new_phone, date_str, term) ==
    /\ \A i \in 1..Len(r.data) : Len(r.data[i].rec.phones) <= MaxFacadePhones
    /\ data' = r.data
    /\ last' = [NoCall EXCEPT !.op = op, !.username = username, !.phone = phone,
                              !.new_phone = new_phone, !.date = date_str,
                              !.term = term, !.err = r.err, !.message = r.message,
                              !.ret = r.items]
    /\ prev_data' = data
    /\ UNCHANGED <<record, prev_record, emptied, field, prev_field, today, app, disk>>

Call_add_contact ==
    \E u \in FacadeUsernames, p \in FacadePhones :
        \E r \in {add_contact(data, u, p)} :
            facade_called("add_contact", r, u, p, <<>>, <<>>, <<>>)

Call_change_contact ==
    \E u \in FacadeUsernames, p \in {P1, P2}, n \in FacadePhones :
        \E r \in {change_contact(data, u, p, n)} :
            facade_called("change_contact", r, u, p, n, <<>>, <<>>)

Call_remove_contact ==
    \E u \in FacadeUsernames :
        \E r \in {remove_contact(data, u)} :
            facade_called("remove_contact", r, u, <<>>, <<>>, <<>>, <<>>)

Call_show_phone ==
    \E t \in FacadeSearchTerms :
        \E r \in {show_phone(data, t)} :
            facade_called("show_phone", r, <<>>, <<>>, <<>>, <<>>, t)

Call_facade_remove_phone ==
    \E u \in FacadeUsernames, p \in {P1, P2} :
        \E r \in {remove_phone(data, u, p)} :
            facade_called("contacts_manager.remove_phone", r, u, p, <<>>, <<>>, <<>>)

Call_facade_add_birthday ==
    \E u \in FacadeUsernames, d \in FacadeDates :
        \E r \in {add_birthday(data, u, d)} :
            facade_called("contacts_manager.add_birthday", r, u, <<>>, <<>>, d, <<>>)

Call_show_birthday ==
    \E u \in FacadeUsernames \cup {K9} :
        \E r \in {show_birthday(data, u)} :
            facade_called("show_birthday", r, u, <<>>, <<>>, <<>>, <<>>)

Call_remove_birthday ==
    \E u \in FacadeUsernames :
        \E r \in {remove_birthday(data, u)} :
            facade_called("remove_birthday", r, u, <<>>, <<>>, <<>>, <<>>)

Call_show_upcoming_birthdays ==
    \E r \in {show_upcoming_birthdays(data)} :
        facade_called("show_upcoming_birthdays", r, <<>>, <<>>, <<>>, <<>>, <<>>)

\* handle_exit() with save_state_on_exit: the process after it, and the file
handle_exit(process, book, file, fault) ==
    LET r == save_contacts(process.loaded, book, file, fault)
        saves == IF r.attempted THEN process.saves + 1 ELSE process.saves
    IN [file |-> r.file,
        process |->
            IF r.err = NoError
            THEN [process EXCEPT !.pc = "exited", !.saves = saves,
                                 !.message = "MSG_SAVE_SUCCESS"]
            ELSE IF r.err.exc = "PersistenceError"
            THEN [process EXCEPT !.pc = "exited", !.saves = saves,
                                 !.message = "ERROR: Could not save contacts.",
                                 !.suffix = "quitting without saving changes"]
            ELSE [process EXCEPT !.pc = "crashed", !.saves = saves]]

\* handle_load_app_data(): the store is loaded and main() goes on to the
\* loop, or handle_exit(save_state_on_exit=False) ends the process
Call_handle_load_app_data ==
    /\ app.pc = "start"
    /\ \E fault \in FileFaults :
          \E r \in {load_address_book(disk, fault)} :
              /\ data' = r.book
              /\ app' = IF r.err = NoError
                        THEN [app EXCEPT !.pc = "prompt", !.loaded = TRUE,
                                         !.load = r.outcome]
                        ELSE [app EXCEPT !.pc = "exited", !.load = r.outcome,
                                         !.message = "Failed to load application data.",
                                         !.suffix = "can't start the application",
                                         !.shutdown = "load"]
              /\ last' = [NoCall EXCEPT !.op = "handle_load_app_data",
                                        !.message = [msg |-> r.err.msg,
                                                     args |-> r.err.args]]
    /\ prev_data' = data
    /\ UNCHANGED <<record, prev_record, emptied, field, prev_field, today, disk>>

\* Ctrl+C while the store is loaded: keyboard_interrupt_error calls
\* handle_exit(), whose save_contacts() finds no store
KeyboardInterrupt_in_load ==
    /\ app.pc = "start"
    /\ \E r \in {handle_exit([app EXCEPT !.load = "KeyboardInterrupt",
                                         !.shutdown = "KeyboardInterrupt"],
                             data, disk, "none")} :
          /\ app' = r.process
          /\ disk' = r.file
    /\ last' = [NoCall EXCEPT !.op = "keyboard_interrupt_error"]
    /\ prev_data' = data
    /\ UNCHANGED <<data, record, prev_record, emptied, field, prev_field, today>>

\* one pass of the loop of main(): a line is read and its handler called; an
\* exception the handler lets through ends the process; for exit and close
\* the process enters handle_exit()
Call_main_loop ==
    /\ app.pc = "prompt"
    /\ \E user_input \in InputLines :
          \E b \in {main_loop_body(data, user_input)} :
              /\ b.handler # "handle_exit" => app.commands < MaxCommands
              /\ \A i \in 1..Len(b.result.data) :
                    Len(b.result.data[i].rec.phones) <= MaxFacadePhones
              /\ data' = b.result.data
              /\ app' = [app EXCEPT
                            !.pc = IF b.handler = "handle_exit" THEN "saving"
                                   ELSE IF b.result.err # NoError THEN "crashed"
                                   ELSE "prompt",
                            !.commands = IF b.handler = "handle_exit" THEN @ ELSE @ + 1,
                            !.handler = b.handler,
                            !.line = user_input,
                            !.shutdown = IF b.handler = "handle_exit" THEN "command"
                                         ELSE @]
              /\ last' = [NoCall EXCEPT !.op = b.handler, !.err = b.result.err,
                                        !.message = b.result.message,
                                        !.ret = b.result.items]
    /\ prev_data' = data
    /\ UNCHANGED <<record, prev_record, emptied, field, prev_field, today, disk>>

\* Ctrl+C at input(): keyboard_interrupt_error calls handle_exit(prefix="\n")
KeyboardInterrupt_at_input ==
    /\ app.pc = "prompt"
    /\ app' = [app EXCEPT !.pc = "saving_on_interrupt", !.shutdown = "KeyboardInterrupt"]
    /\ last' = [NoCall EXCEPT !.op = "keyboard_interrupt_error"]
    /\ prev_data' = data
    /\ UNCHANGED <<data, record, prev_record, emptied, field, prev_field, today, disk>>

\* handle_exit(): save_contacts() returns or raises, the message is printed
\* and sys.exit(0) ends the process
Call_handle_exit ==
    /\ app.pc \in {"saving", "saving_on_interrupt"}
    /\ \E fault \in FileFaults :
          \E r \in {handle_exit(app, data, disk, fault)} :
              /\ app' = r.process
              /\ disk' = r.file
    /\ last' = [NoCall EXCEPT !.op = "handle_exit"]
    /\ prev_data' = data
    /\ UNCHANGED <<data, record, prev_record, emptied, field, prev_field, today>>

\* Ctrl+C while save_address_book() runs, the file opened already or not:
\* inside main() the decorator catches it and calls handle_exit() again;
\* inside the handle_exit() the decorator called, it ends the process
KeyboardInterrupt_in_save ==
    /\ app.pc \in {"saving", "saving_on_interrupt"}
    /\ app' = [app EXCEPT !.pc = IF app.pc = "saving" THEN "saving_on_interrupt"
                                 ELSE "crashed",
                          !.saves = @ + 1]
    /\ disk' \in {disk, file_truncated(disk)}
    /\ last' = [NoCall EXCEPT !.op = "keyboard_interrupt_error"]
    /\ prev_data' = data
    /\ UNCHANGED <<data, record, prev_record, emptied, field, prev_field, today>>

\* the program is started again: a new process, the file as it was left
Run_main ==
    /\ app.pc \in {"exited", "crashed"}
    /\ app.run < MaxRuns
    /\ app' = [NoApp EXCEPT !.run = app.run + 1, !.writes0 = disk.writes]
    /\ data' = <<>>
    /\ last' = NoCall
    /\ prev_data' = <<>>
    /\ UNCHANGED <<record, prev_record, emptied, field, prev_field, today, disk>>

Init ==
    /\ data = <<>>
    /\ record = NoRecord
    /\ last = NoCall
    /\ prev_data = <<>>
    /\ prev_record = NoRecord
    /\ emptied = FALSE
    /\ field = NoField
    /\ prev_field = NoField
    /\ today = Today0
    /\ app = NoApp
    /\ disk = NoDisk

Next ==
    \/ Call_Record_fails
    \/ Call_add_record
    \/ Call_add_record_object
    \/ Call_find
    \/ Call_find_match
    \/ Call_delete
    \/ Call_str
    \/ Call_show_all

Spec == Init /\ [][Next]_vars

\* one Record, as Record(username) makes it, and the calls of its phone methods
InitRecord ==
    /\ data = <<>>
    /\ \E u \in {Bob, AlexPadded} : record = Record(u).rec
    /\ last = NoCall
    /\ prev_data = <<>>
    /\ prev_record = record
    /\ emptied = FALSE
    /\ field = NoField
    /\ prev_field = NoField
    /\ today = Today0
    /\ app = NoApp
    /\ disk = NoDisk

NextRecord ==
    \/ Call_add_phone
    \/ Call_edit_phone
    \/ Call_remove_phone

SpecRecord == InitRecord /\ [][NextRecord]_vars

\* Phone objects of their own: made, and assigned a value
InitPhone ==
    /\ data = <<>>
    /\ record = NoRecord
    /\ last = NoCall
    /\ prev_data = <<>>
    /\ prev_record = NoRecord
    /\ emptied = FALSE
    /\ field = NoField
    /\ prev_field = NoField
    /\ today = Today0
    /\ app = NoApp
    /\ disk = NoDisk

NextPhone ==
    \/ Call_Phone
    \/ Call_Phone_value_setter
    \/ Call_update_phone

SpecPhone == InitPhone /\ [][NextPhone]_vars

\* one Record and the calls of add_birthday, as the days pass
NextName ==
    \/ Call_Name
    \/ Call_Name_value_setter

SpecName == InitPhone /\ [][NextName]_vars

InitFacade ==
    /\ data \in FacadeStores
    /\ record = NoRecord
    /\ last = NoCall
    /\ prev_data = data
    /\ prev_record = NoRecord
    /\ emptied = FALSE
    /\ field = NoField
    /\ prev_field = NoField
    /\ today = Today0
    /\ app = NoApp
    /\ disk = NoDisk

NextFacade ==
    \/ Call_show_all
    \/ Call_add_contact
    \/ Call_change_contact
    \/ Call_remove_contact
    \/ Call_show_phone
    \/ Call_facade_remove_phone
    \/ Call_facade_add_birthday
    \/ Call_show_birthday
    \/ Call_remove_birthday
    \/ Call_show_upcoming_birthdays

SpecFacade == InitFacade /\ [][NextFacade]_vars

NextApp ==
    \/ Call_handle_load_app_data
    \/ KeyboardInterrupt_in_load
    \/ Call_main_loop
    \/ KeyboardInterrupt_at_input
    \/ Call_handle_exit
    \/ KeyboardInterrupt_in_save
    \/ Run_main

SpecApp == InitPhone /\ [][NextApp]_vars

InitBirthday ==
    /\ data = <<>>
    /\ record = Record(Bob).rec
    /\ last = NoCall
    /\ prev_data = <<>>
    /\ prev_record = record
    /\ emptied = FALSE
    /\ field = NoField
    /\ prev_field = NoField
    /\ today = Today0
    /\ app = NoApp
    /\ disk = NoDisk

NextBirthday ==
    \/ Call_add_birthday
    \/ Call_tick

SpecBirthday == InitBirthday /\ [][NextBirthday]_vars

\* Birthday objects of their own: made, and assigned a value, as the days pass
InitBirthdayField ==
    /\ data = <<>>
    /\ record = NoRecord
    /\ last = NoCall
    /\ prev_data = <<>>
    /\ prev_record = NoRecord
    /\ emptied = FALSE
    /\ field = NoField
    /\ prev_field = NoField
    /\ today = Today0
    /\ app = NoApp
    /\ disk = NoDisk

NextBirthdayField ==
    \/ Call_Birthday
    \/ Call_Birthday_value_setter
    \/ Call_tick

SpecBirthdayField == InitBirthdayField /\ [][NextBirthdayField]_vars

\* an AddressBook given records with birthdays, and get_upcoming_birthdays
InitUpcoming ==
    /\ data = <<>>
    /\ record = NoRecord
    /\ last = NoCall
    /\ prev_data = <<>>
    /\ prev_record = NoRecord
    /\ emptied = FALSE
    /\ field = NoField
    /\ prev_field = NoField
    /\ today = Today0
    /\ app = NoApp
    /\ disk = NoDisk

NextUpcoming ==
    \/ Call_add_record_with_birthday
    \/ Call_get_upcoming_birthdays

SpecUpcoming == InitUpcoming /\ [][NextUpcoming]_vars

\* get_upcoming_birthdays about a weekend: the order of the list, the records
\* taken and left out
NextWeekend ==
    \/ Call_add_record_weekend
    \/ Call_get_upcoming_birthdays_weekend

SpecWeekend == InitUpcoming /\ [][NextWeekend]_vars

(***************************************************************************)
(* Properties                                                              *)
(***************************************************************************)
\* the positions of the contacts of a dict whose name is the username up to case
same_folded_name(contacts, username) ==
    {i \in 1..Len(contacts) : casefold(contacts[i].rec.name) = casefold(username)}

\* C1: in every state reached from an empty AddressBook by add_record and
\* delete calls, successful or failing, no two records of the store have
\* names that are equal after case-folding.
C1_NoTwoRecordsShareFoldedName ==
    \A i, j \in 1..Len(data) :
        i # j => casefold(data[i].rec.name) # casefold(data[j].rec.name)

\* a store of two records on which an add_record failed for a name that
\* differs from a stored one by case only
C1_Witness ==
    /\ Len(data) >= 2
    /\ last.op = "add_record"
    /\ last.err.msg = "MSG_CONTACT_EXISTS_DIFFERENT_NAME"
    /\ \E i \in 1..Len(data) :
          /\ data[i].rec.name # last.contact[1].name
          /\ casefold(data[i].rec.name) = casefold(last.contact[1].name)

\* C2: add_record(r) fails with a ValidationError and leaves the store
\* unchanged whenever a stored record's name equals r's name up to case; the
\* failure is the plain "already exists" one when the stored name is
\* identical and the "under a different name: X" one, X the stored name,
\* when it differs by case.
C2_AddRecordClashFails ==
    (last.op = "add_record" /\ last.contact # <<>>) =>
        LET r == last.contact[1] IN
        \A i \in same_folded_name(prev_data, r.name) :
            /\ last.err.exc = "ValidationError"
            /\ data = prev_data
            /\ prev_data[i].rec.name = r.name =>
                  /\ last.err.msg = "MSG_CONTACT_EXISTS"
                  /\ last.err.args = <<r.name>>
            /\ prev_data[i].rec.name # r.name =>
                  /\ last.err.msg = "MSG_CONTACT_EXISTS_DIFFERENT_NAME"
                  /\ last.err.args = <<r.name, prev_data[i].rec.name>>

\* "Bob" is stored and add_record of "bob" failed citing "Bob"
C2_Witness ==
    /\ last.op = "add_record"
    /\ last.contact # <<>>
    /\ last.contact[1].name = bob
    /\ \E i \in 1..Len(data) : data[i].rec.name = Bob
    /\ last.err = ValidationError("MSG_CONTACT_EXISTS_DIFFERENT_NAME", <<bob, Bob>>)

C4_DeleteExactOnly ==
    (last.op = "delete") =>
        LET u == last.username
            exact == {i \in 1..Len(prev_data) : prev_data[i].key = u}
        IN IF exact = {}
           THEN /\ last.err.exc = "ValidationError"
                /\ data = prev_data
           ELSE /\ last.err = NoError
                /\ Len(data) = Len(prev_data) - 1
                /\ \A j \in 1..Len(data) : data[j].key # u
                /\ \A i \in 1..Len(prev_data) :
                      prev_data[i].key # u =>
                          \E j \in 1..Len(data) : data[j] = prev_data[i]

\* a delete removed one of three records
C4_Witness ==
    /\ last.op = "delete"
    /\ last.err = NoError
    /\ Len(prev_data) = 3
    /\ Len(data) = 2

\* C5 as claimed: after the last record has been deleted, each subsequent
\* find, delete and show-all (__str__, show_all) call fails with the
\* empty-store failure.
C5_Original ==
    (emptied /\ prev_data = <<>>) =>
        /\ last.op \in {"find", "delete", "__str__"} =>
              last.err = ValidationError("MSG_NO_CONTACTS", <<>>)
        /\ last.op = "show_all" =>
              last.message = [msg |-> "MSG_NO_CONTACTS", args |-> <<>>]

\* C5 amended: after the last record has been deleted the store is empty;
\* each subsequent find and show-all (__str__, show_all) call fails with the
\* empty-store failure and each subsequent delete fails with the plain
\* not-found failure.
C5_AfterLastDelete ==
    emptied =>
        /\ data = <<>>
        /\ prev_data = <<>> =>
              /\ last.op \in {"find", "__str__"} =>
                    last.err = ValidationError("MSG_NO_CONTACTS", <<>>)
              /\ last.op = "show_all" =>
                    last.message = [msg |-> "MSG_NO_CONTACTS", args |-> <<>>]
              /\ last.op = "delete" =>
                    last.err = ValidationError("MSG_CONTACT_NOT_FOUND", <<last.username>>)

\* a find on the store whose last record was deleted
C5_Witness ==
    /\ emptied
    /\ prev_data = <<>>
    /\ last.op = "find"
    /\ last.err.exc = "ValidationError"

\* the search term is in the name of the record, case-insensitively
name_contains(term, rec) == str_in(casefold(term), casefold(rec.name))

\* the search term is a substring of the value of a phone of the record
phone_contains(term, rec) ==
    \E i \in 1..Len(rec.phones) : str_in(term, rec.phones[i])

\* the same, case-insensitively
phone_contains_folded(term, rec) ==
    \E i \in 1..Len(rec.phones) : str_in(casefold(term), casefold(rec.phones[i]))

records_of(contacts) == [i \in 1..Len(contacts) |-> contacts[i].rec]

\* C6 as claimed: on a non-empty store find_match(term) returns, in store
\* order and each at most once, exactly the records whose name contains term
\* case-insensitively or that have a phone whose value contains term as a
\* substring; with an empty term every record.
C6_Original ==
    (last.op = "find_match" /\ prev_data # <<>>) =>
        /\ last.err = NoError
        /\ last.ret =
              SelectSeq(records_of(prev_data),
                        LAMBDA r : \/ last.term = <<>>
                                   \/ name_contains(last.term, r)
                                   \/ phone_contains(last.term, r))

\* C6 amended: on a non-empty store find_match(term) returns, in store order
\* and each at most once, exactly the records whose name contains term
\* case-insensitively or that have a phone whose value contains term
\* case-insensitively; with an empty term every record.
C6_FindMatchResult ==
    (last.op = "find_match" /\ prev_data # <<>>) =>
        /\ last.err = NoError
        /\ last.ret =
              SelectSeq(records_of(prev_data),
                        LAMBDA r : \/ last.term = <<>>
                                   \/ name_contains(last.term, r)
                                   \/ phone_contains_folded(last.term, r))

\* a search in a store of three records that returned two of them, one for
\* its name and one for a phone, the first of them matching by both
C6_Witness ==
    /\ last.op = "find_match"
    /\ last.term = <<"9">>
    /\ Len(data) = 3
    /\ Len(last.ret) = 2
    /\ name_contains(last.term, last.ret[1])
    /\ phone_contains_folded(last.term, last.ret[1])
    /\ ~name_contains(last.term, last.ret[2])

\* C7: find_match fails only when the store is empty, then with the
\* empty-store ValidationError; on a non-empty store it never fails and
\* returns an empty list when no record matches.
C7_FindMatchFailsOnlyOnEmptyStore ==
    (last.op = "find_match") =>
        /\ (last.err # NoError) <=> (prev_data = <<>>)
        /\ prev_data = <<>> =>
              /\ last.err = ValidationError("MSG_NO_CONTACTS", <<>>)
              /\ last.ret = <<>>
        /\ (/\ prev_data # <<>>
            /\ \A i \in 1..Len(prev_data) :
                  /\ ~name_contains(last.term, prev_data[i].rec)
                  /\ ~phone_contains_folded(last.term, prev_data[i].rec))
             => last.ret = <<>>

\* a search on a store of two records that matched none and returned []
C7_Witness ==
    /\ last.op = "find_match"
    /\ last.term = <<"z","z">>
    /\ Len(data) >= 2
    /\ last.err = NoError
    /\ last.ret = <<>>

\* C8 as claimed: in every state reached by add_phone, edit_phone and
\* remove_phone calls on a Record, with any string arguments, no two phones
\* of the record's phone list have equal value.
C8_NoTwoPhonesEqual ==
    \A i, j \in 1..Len(record.phones) :
        i # j => record.phones[i] # record.phones[j]

\* C9 as claimed: for a valid phone string p, add_phone(p) fails with the
\* duplicate-phone ValidationError and leaves the phone list unchanged when
\* the record already holds a phone with the value of p, and appends p at
\* the end of the list when it holds none; the value of p is the value
\* Phone(p) holds.
C9_AddPhone ==
    (last.op = "add_phone" /\ Phone(last.phone).err = NoError) =>
        LET value == Phone(last.phone).value IN
        IF \E i \in 1..Len(prev_record.phones) : prev_record.phones[i] = value
        THEN /\ last.err.exc = "ValidationError"
             /\ last.err.msg = "MSG_PHONE_NUMBER_EXISTS"
             /\ record.phones = prev_record.phones
        ELSE /\ last.err = NoError
             /\ record.phones = Append(prev_record.phones, value)

\* C10 as claimed: the stored value of a phone is exactly 10 digits, a
\* leading "+" and other non-digit characters not being part of it, and two
\* inputs with the same digits are the same phone for the duplicate check of
\* add_phone and edit_phone.
C10_PhoneValueIsTenDigits ==
    /\ \A i \in 1..Len(record.phones) :
          /\ Len(record.phones[i]) = PHONE_DIGITS
          /\ \A k \in 1..Len(record.phones[i]) : record.phones[i][k] \in Digits
    /\ (/\ last.op = "add_phone"
        /\ Phone(last.phone).err = NoError
        /\ \E i \in 1..Len(prev_record.phones) :
              digits_only(prev_record.phones[i]) = digits_only(last.phone))
         => last.err.msg = "MSG_PHONE_NUMBER_EXISTS"
    /\ (/\ last.op = "edit_phone"
        /\ Phone(last.new_phone).err = NoError
        /\ \E i \in 1..Len(prev_record.phones) :
              digits_only(prev_record.phones[i]) = digits_only(last.new_phone))
         => last.err.msg = "MSG_PHONE_NUMBER_EXISTS"

\* C10 amended: the stored value of a phone is the trimmed input, which has
\* exactly 10 digits, a leading "+" and other non-digit characters staying
\* part of it; phones are equal by stored value, so two inputs that differ
\* by a leading "+" only are different phones for the duplicate check of
\* add_phone and edit_phone.
C10_PhoneValueIsTrimmedInput ==
    /\ \A i \in 1..Len(record.phones) :
          /\ Len(digits_only(record.phones[i])) = PHONE_DIGITS
          /\ strip(record.phones[i]) = record.phones[i]
    /\ (last.op = "add_phone" /\ last.err = NoError) =>
          record.phones = Append(prev_record.phones, strip(last.phone))
    /\ (last.op = "edit_phone" /\ last.err = NoError) =>
          \E i \in 1..Len(prev_record.phones) :
              /\ prev_record.phones[i] = last.phone
              /\ record.phones = [prev_record.phones EXCEPT ![i] = strip(last.new_phone)]
    /\ (/\ last.op = "add_phone"
        /\ Phone(last.phone).err = NoError
        /\ strip(last.phone) = last.phone)
         => ((last.err.msg = "MSG_PHONE_NUMBER_EXISTS")
              <=> (\E i \in 1..Len(prev_record.phones) :
                      prev_record.phones[i] = last.phone))
    /\ (/\ last.op = "edit_phone"
        /\ Phone(last.new_phone).err = NoError
        /\ strip(last.new_phone) = last.new_phone)
         => ((last.err.msg = "MSG_PHONE_NUMBER_EXISTS")
              <=> (\E i \in 1..Len(prev_record.phones) :
                      prev_record.phones[i] = last.new_phone))

\* a record holding "1234567890" to which "+1234567890" was added
C10_Witness ==
    /\ last.op = "add_phone"
    /\ last.phone = P1Plus
    /\ last.err = NoError
    /\ \E i \in 1..Len(prev_record.phones) : prev_record.phones[i] = P1
    /\ record.phones[Len(record.phones)] = P1Plus

\* the digits of a str, in their order
digits_of(s) == SelectSeq(s, LAMBDA c : c \in Digits)

\* the number of digits left of a str once it is trimmed and its non-digit
\* characters are removed
digit_count(s) == Cardinality({i \in 1..Len(strip(s)) : strip(s)[i] \in Digits})

PhoneCalls == {"Phone", "Phone.value", "update_phone"}

\* C11: making a Phone or assigning its value succeeds exactly when the
\* trimmed input holds 10 digits; on success the digits of the stored value
\* are the digits of the input in the same order; a failed assignment keeps
\* the value stored before (and a failed construction makes no object)
C11_PhoneTenDigits ==
    last.op \in PhoneCalls =>
        /\ (last.err = NoError) <=> (digit_count(last.phone) = 10)
        /\ last.err = NoError =>
              /\ field.cls = "Phone"
              /\ digits_of(field.value) = digits_of(last.phone)
        /\ last.err # NoError =>
              /\ last.err.exc = "ValidationError"
              /\ field = prev_field

\* a Phone holding "9876543210" holds "123-456-7890" once that is assigned
C11_Witness ==
    /\ last.op = "update_phone"
    /\ last.phone = PDashed
    /\ last.err = NoError
    /\ prev_field.value = P2
    /\ field.value = PDashed

\* C12 as claimed: edit_phone(old, new) fails and leaves the phone list
\* unchanged when the phone new already is on the record, when old is not
\* found or when new is not a valid phone; otherwise the list keeps its
\* length, the position that held old holds new and every other position is
\* unchanged. The phone new is the value Phone(new) holds.
C12_EditPhone ==
    last.op = "edit_phone" =>
        LET new == Phone(last.new_phone)
            new_exists == \E i \in 1..Len(prev_record.phones) :
                              prev_record.phones[i] = new.value
            old_found == \E i \in 1..Len(prev_record.phones) :
                             prev_record.phones[i] = last.phone
        IN IF new.err # NoError \/ new_exists \/ ~old_found
           THEN /\ last.err.exc = "ValidationError"
                /\ record.phones = prev_record.phones
           ELSE /\ last.err = NoError
                /\ Len(record.phones) = Len(prev_record.phones)
                /\ \E i \in 1..Len(prev_record.phones) :
                      /\ prev_record.phones[i] = last.phone
                      /\ record.phones = [prev_record.phones EXCEPT ![i] = new.value]

\* C13: remove_phone(p) fails with not-found and leaves the phone list
\* unchanged when no phone has the value p; otherwise one phone is removed,
\* its value is p, and the other phones keep their values and their order
C13_RemovePhone ==
    last.op = "remove_phone" =>
        IF \A i \in 1..Len(prev_record.phones) : prev_record.phones[i] # last.phone
        THEN /\ last.err.exc = "ValidationError"
             /\ last.err.msg = "MSG_PHONE_NUMBER_NOT_FOUND"
             /\ record.phones = prev_record.phones
        ELSE /\ last.err = NoError
             /\ \E i \in 1..Len(prev_record.phones) :
                   /\ prev_record.phones[i] = last.phone
                   /\ record.phones = SubSeq(prev_record.phones, 1, i - 1)
                                        \o SubSeq(prev_record.phones, i + 1,
                                                  Len(prev_record.phones))

\* the second of three phones is removed, the first and the third stay
C13_Witness ==
    /\ last.op = "remove_phone"
    /\ last.err = NoError
    /\ Len(prev_record.phones) = 3
    /\ prev_record.phones[2] = last.phone
    /\ prev_record.phones[1] # last.phone
    /\ record.phones = <<prev_record.phones[1], prev_record.phones[3]>>

\* the date each date string of the model names, NoDate for the strings that
\* name none
date_denoted(s) ==
    CASE s = D_05_05_2005 -> date(2005, 5, 5)
      [] s = D_5_05_2005 -> date(2005, 5, 5)
      [] s = D_06_06_2006 -> date(2006, 6, 6)
      [] s = D_01_01_1000 -> date(1000, 1, 1)
      [] s = D_28_02_2024 -> date(2024, 2, 28)
      [] s = D_29_02_2024 -> date(2024, 2, 29)
      [] s = D_01_03_2024 -> date(2024, 3, 1)
      [] s = D_01_01_2200 -> date(2200, 1, 1)
      [] s = D_01_01_2025 -> date(2025, 1, 1)
      [] s = D_03_01_2025 -> date(2025, 1, 3)
      [] s = D_30_12_2025 -> date(2025, 12, 30)
      [] s = D_25_02_2025 -> date(2025, 2, 25)
      [] s = D_02_03_2023 -> date(2023, 3, 2)
      [] s = D_28_02_2100 -> date(2100, 2, 28)
      [] s = D_06_01_2025 -> date(2025, 1, 6)
      [] s = D_28_12_2024 -> date(2024, 12, 28)
      [] OTHER -> NoDate

\* d is a day after the day of the clock
after_today(d) == toordinal(d) > toordinal(today)

\* C14: for a valid date d not after today, add_birthday(d) sets the birthday
\* to d when the record has none, fails as duplicate and leaves the birthday
\* unchanged when the record's birthday equals d, and replaces the birthday
\* by d otherwise; a record holds at most one birthday, the argument of the
\* last successful call (a successful call leaves its argument, a failed call
\* leaves the birthday as it was)
C14_AddBirthday ==
    /\ Len(record.birthday) <= 1
    /\ last.op = "add_birthday" =>
          LET d == date_denoted(last.date) IN
          /\ (d # NoDate /\ ~after_today(d)) =>
                IF prev_record.birthday = <<>>
                THEN last.err = NoError /\ record.birthday = <<d>>
                ELSE IF prev_record.birthday = <<d>>
                THEN /\ last.err.exc = "ValidationError"
                     /\ last.err.msg = "MSG_BIRTHDAY_DUPLICATE"
                     /\ record.birthday = prev_record.birthday
                ELSE last.err = NoError /\ record.birthday = <<d>>
          /\ last.err = NoError => record.birthday = <<d>>
          /\ last.err # NoError => record.birthday = prev_record.birthday
          /\ record.name = prev_record.name /\ record.phones = prev_record.phones
    /\ last.op = "tick" => record = prev_record

\* the birthday 05.05.2005 of a record is replaced by 06.06.2006
C14_Witness ==
    /\ last.op = "add_birthday"
    /\ last.date = D_06_06_2006
    /\ last.err = NoError
    /\ prev_record.birthday = <<date(2005, 5, 5)>>
    /\ record.birthday = <<date(2006, 6, 6)>>

\* C15: add_birthday(d) fails with a ValidationError and leaves the birthday
\* unchanged when d is after the day of the clock, and takes d when d is that
\* day or an earlier one, however early (unless d is the birthday the record
\* has); so no record holds a birthday after the day of the clock
C15_AddBirthdayNotInFuture ==
    /\ last.op = "add_birthday" /\ date_denoted(last.date) # NoDate =>
          LET d == date_denoted(last.date) IN
          IF after_today(d)
          THEN /\ last.err.exc = "ValidationError"
               /\ last.err.msg = "BIRTHDAY_IN_FUTURE_ERROR"
               /\ record.birthday = prev_record.birthday
          ELSE \/ last.err = NoError /\ record.birthday = <<d>>
               \/ last.err.msg = "MSG_BIRTHDAY_DUPLICATE" /\ prev_record.birthday = <<d>>
    /\ record.birthday # <<>> => ~after_today(record.birthday[1])

\* once the clock shows 29.02.2024, add_birthday takes that day
C15_Witness ==
    /\ last.op = "add_birthday"
    /\ last.date = D_29_02_2024
    /\ today = date(2024, 2, 29)
    /\ last.err = NoError
    /\ record.birthday = <<today>>

BirthdayCalls == {"Birthday", "Birthday.value"}

\* the date an argument of Birthday names, NoDate when it names none
arg_date(a) ==
    IF a.type = "date" THEN a.date
    ELSE IF a.type = "str" THEN date_denoted(a.str)
    ELSE NoDate

\* C16 as claimed: making a Birthday, or assigning its value, with a date (a
\* date object or a DD.MM.YYYY string) after today fails with a
\* ValidationError, as it does with a string that names no date
C16_Original ==
    (/\ last.op \in BirthdayCalls
     /\ last.arg.type \in {"str", "date"}
     /\ (arg_date(last.arg) = NoDate \/ after_today(arg_date(last.arg))))
        => last.err.exc = "ValidationError"

\* C16: Birthday itself has no past-only rule: making a Birthday, or
\* assigning its value, succeeds with every date object and every string
\* that names a date, the dates after today among them, and the object holds
\* that date; it fails with a ValidationError on a string that names no date
\* and with a TypeError on an object that is neither a str nor a date, and
\* a failed assignment keeps the value held before
C16_BirthdayTakesFutureDates ==
    last.op \in BirthdayCalls =>
        LET d == arg_date(last.arg) IN
        /\ (last.arg.type \in {"str", "date"} /\ d # NoDate) =>
              /\ last.err = NoError
              /\ field = [cls |-> "Birthday", value |-> d]
        /\ (last.arg.type = "str" /\ d = NoDate) =>
              /\ last.err.exc = "ValidationError"
              /\ last.err.msg = "DATE_FORMAT_INVALID_ERROR"
              /\ field = prev_field
        /\ last.arg.type \notin {"str", "date"} =>
              /\ last.err.exc = "TypeError"
              /\ field = prev_field

\* a Birthday holding 05.05.2005 is assigned the string 01.01.2200 and holds
\* that day, which is after the day of the clock
C16_Witness ==
    /\ last.op = "Birthday.value"
    /\ last.arg = str_arg(D_01_01_2200)
    /\ last.err = NoError
    /\ prev_field.value = date(2005, 5, 5)
    /\ field.value = date(2200, 1, 1)
    /\ after_today(field.value)

\* the reference date of the last get_upcoming_birthdays call
reference_date ==
    IF last.arg.type = "NoneType" THEN today ELSE date_denoted(last.arg.str)

\* the day of the week by Zeller's congruence: 0 for Saturday, 1 for Sunday
zeller(d) ==
    LET m == IF d.month < 3 THEN d.month + 12 ELSE d.month
        y == IF d.month < 3 THEN d.year - 1 ELSE d.year
        K == y % 100
        J == y \div 100
    IN (d.day + ((13 * (m + 1)) \div 5) + K + (K \div 4) + (J \div 4) + 5 * J) % 7

is_saturday(d) == zeller(d) = 0
is_sunday(d) == zeller(d) = 1

\* the rule of the leap years
leap(y) == (y % 4 = 0 /\ y % 100 # 0) \/ y % 400 = 0

\* the occurrence of a birthday in the year y
occurrence_in(birthday, y) ==
    IF birthday.month = 2 /\ birthday.day = 29 /\ ~leap(y) THEN date(y, 3, 1)
    ELSE date(y, birthday.month, birthday.day)

\* the first occurrence of a birthday that is not before the date ref
next_occurrence(birthday, ref) ==
    IF toordinal(occurrence_in(birthday, ref.year)) >= toordinal(ref)
    THEN occurrence_in(birthday, ref.year)
    ELSE occurrence_in(birthday, ref.year + 1)

UpcomingReturned == last.op = "get_upcoming_birthdays" /\ last.err = NoError

\* C17: in every entry get_upcoming_birthdays returns, the congratulation
\* date is the actual date plus 2 days when the actual date is a Saturday,
\* plus 1 day when it is a Sunday, and the actual date otherwise; the actual
\* date is never a moved one: it has the day and the month of the birthday
\* the record holds (or is 1 March, for a 29 February birthday); and the
\* congratulation date is no Saturday and no Sunday
C17_WeekendShift ==
    UpcomingReturned =>
        \A i \in 1..Len(last.ret) :
            LET e == last.ret[i]
                actual == e.congratulation_actual
                shift == IF is_saturday(actual) THEN 2
                         ELSE IF is_sunday(actual) THEN 1 ELSE 0
            IN /\ toordinal(e.congratulation) = toordinal(actual) + shift
               /\ ~is_saturday(e.congratulation) /\ ~is_sunday(e.congratulation)
               /\ \E k \in 1..Len(data) :
                     /\ data[k].rec.name = e.name
                     /\ data[k].rec.birthday # <<>>
                     /\ LET b == data[k].rec.birthday[1] IN
                        \/ actual.month = b.month /\ actual.day = b.day
                        \/ /\ b.month = 2 /\ b.day = 29
                           /\ actual.month = 3 /\ actual.day = 1

\* the birthday 04.01.2001 with the reference date 01.01.2025: the
\* congratulation is on Monday 06.01.2025, the actual date Saturday 04.01.2025
C17_Witness ==
    /\ UpcomingReturned
    /\ last.arg = str_arg(D_01_01_2025)
    /\ last.days = 7
    /\ \E i \in 1..Len(last.ret) :
          last.ret[i] = [name |-> Alice,
                         congratulation |-> date(2025, 1, 6),
                         congratulation_actual |-> date(2025, 1, 4)]

\* C18 as claimed: get_upcoming_birthdays(ref, windowDays) returns one entry
\* for a record if and only if the record has a birthday and its next
\* occurrence d satisfies ref <= d <= ref + windowDays, and d is the actual
\* date of the entry; a record without a birthday has no entry, no record has
\* two entries, and an empty store gives an empty list.
C18_EntryIffInWindow ==
    UpcomingReturned =>
        /\ \A k \in 1..Len(data) :
              LET rec == data[k].rec
                  entries == {i \in 1..Len(last.ret) : last.ret[i].name = rec.name}
                  d == next_occurrence(rec.birthday[1], reference_date)
              IN /\ Cardinality(entries) <= 1
                 /\ rec.birthday = <<>> => entries = {}
                 /\ rec.birthday # <<>> =>
                       /\ (entries # {}) <=>
                             /\ toordinal(reference_date) <= toordinal(d)
                             /\ toordinal(d) <= toordinal(reference_date) + last.days
                       /\ \A i \in entries : last.ret[i].congratulation_actual = d
        /\ \A i \in 1..Len(last.ret) :
              \E k \in 1..Len(data) : data[k].rec.name = last.ret[i].name
        /\ data = <<>> => last.ret = <<>>

\* C19: for a 29 February birthday the occurrence computed for the year of
\* the reference date is 29 February of that year when the year is a leap
\* year (divisible by 4 and not by 100, or divisible by 400) and 1 March of
\* that year when it is not
C19_Feb29ThisYear ==
    UpcomingReturned =>
        \A i \in 1..Len(last.passes) :
            LET pass == last.passes[i]
                y == reference_date.year
            IN (pass.birthday.month = 2 /\ pass.birthday.day = 29) =>
                  IF (y % 4 = 0 /\ y % 100 # 0) \/ y % 400 = 0
                  THEN pass.this_year = date(y, 2, 29)
                  ELSE pass.this_year = date(y, 3, 1)

\* the birthday 29.02.2000 with a reference date in 2100, a year divisible
\* by 100 and not by 400: the occurrence of the year is 01.03.2100
C19_Witness ==
    /\ UpcomingReturned
    /\ last.arg = str_arg(D_28_02_2100)
    /\ \E i \in 1..Len(last.passes) :
          /\ last.passes[i].birthday = date(2000, 2, 29)
          /\ last.passes[i].this_year = date(2100, 3, 1)
    /\ \E i \in 1..Len(last.ret) :
          last.ret[i].congratulation_actual = date(2100, 3, 1)

\* C20 as claimed: when the occurrence of the reference year is before the
\* reference date, the occurrence used is the one of the following year, and
\* an occurrence on the reference date itself is kept; for a 29 February
\* birthday the occurrence of the following year is 29 February when that
\* year is a leap year and 1 March when it is not, for every reference date
\* and every window length.
C20_RollToNextYear ==
    UpcomingReturned =>
        \A i \in 1..Len(last.passes) :
            LET pass == last.passes[i]
                y == reference_date.year
            IN IF toordinal(pass.this_year) < toordinal(reference_date)
               THEN pass.next = occurrence_in(pass.birthday, y + 1)
               ELSE pass.next = pass.this_year

\* a <= b on two str, by the positions of their characters in CodePoints
str_before_or_equal(a, b) ==
    \/ \E k \in 1..Len(a) :
          /\ k <= Len(b)
          /\ SubSeq(a, 1, k - 1) = SubSeq(b, 1, k - 1)
          /\ (CHOOSE i \in 1..Len(CodePoints) : CodePoints[i] = a[k])
                < (CHOOSE i \in 1..Len(CodePoints) : CodePoints[i] = b[k])
    \/ Len(a) <= Len(b) /\ a = SubSeq(b, 1, Len(a))

\* C21: the list get_upcoming_birthdays returns is in ascending order of the
\* pair (congratulation date, case-folded name): of two consecutive entries
\* the first has the earlier congratulation date, or the same date and the
\* case-folded name that is not after the other
C21_SortedByDateAndFoldedName ==
    UpcomingReturned =>
        \A i \in 1..(Len(last.ret) - 1) :
            LET a == last.ret[i]
                b == last.ret[i + 1]
            IN \/ toordinal(a.congratulation) < toordinal(b.congratulation)
               \/ /\ a.congratulation = b.congratulation
                  /\ str_before_or_equal(casefold(a.name), casefold(b.name))

\* the records were added as Bob, Alice, alex; alex and Alice have the same
\* congratulation date 06.01.2025 and alex comes first, Bob before both
C21_Witness ==
    /\ UpcomingReturned
    /\ last.arg = str_arg(D_01_01_2025)
    /\ Len(data) = 3
    /\ data[1].rec.name = Bob /\ data[2].rec.name = Alice /\ data[3].rec.name = alex
    /\ Len(last.ret) = 3
    /\ last.ret[1].name = Bob
    /\ last.ret[2].name = alex /\ last.ret[2].congratulation = date(2025, 1, 6)
    /\ last.ret[3].name = Alice /\ last.ret[3].congratulation = date(2025, 1, 6)

is_monday(d) == zeller(d) = 2

\* the record rec has its occurrence of the reference year on the Saturday or
\* the Sunday right before the reference date, a Monday
weekend_before_reference(rec) ==
    /\ rec.birthday # <<>>
    /\ is_monday(reference_date)
    /\ LET occ == occurrence_in(rec.birthday[1], reference_date.year) IN
       /\ is_saturday(occ) \/ is_sunday(occ)
       /\ toordinal(reference_date) - toordinal(occ) \in {1, 2}

\* the entries of the list returned for the record rec
entries_of(rec) == {i \in 1..Len(last.ret) : last.ret[i].name = rec.name}

\* the records are taken by their actual date: a record whose birthday is not
\* 29 February has an entry exactly when its next occurrence is in the window, and the congratulation date of
\* an entry is at most 2 days after the end of the window
taken_by_actual_date ==
    /\ \A k \in 1..Len(data) :
          LET rec == data[k].rec IN
          (rec.birthday # <<>> /\ ~(rec.birthday[1].month = 2 /\ rec.birthday[1].day = 29)) =>
             LET d == next_occurrence(rec.birthday[1], reference_date) IN
             /\ (entries_of(rec) # {}) <=>
                   /\ toordinal(reference_date) <= toordinal(d)
                   /\ toordinal(d) <= toordinal(reference_date) + last.days
             /\ \A i \in entries_of(rec) : last.ret[i].congratulation_actual = d
    /\ \A i \in 1..Len(last.ret) :
          toordinal(last.ret[i].congratulation)
              <= toordinal(reference_date) + last.days + 2

\* C30 as claimed: the records are taken by the actual date, never by the
\* congratulation date; a birthday whose occurrence of this year was on the
\* Saturday or Sunday right before a Monday reference date is rolled to the
\* next year and is not returned for a window shorter than a year, and the
\* congratulation date of an entry is at most 2 days after the window.
C30_Original ==
    UpcomingReturned =>
        /\ taken_by_actual_date
        /\ \A k \in 1..Len(data) :
              (weekend_before_reference(data[k].rec) /\ last.days < 365)
                  => entries_of(data[k].rec) = {}

\* C30: the records are taken by the actual date, never by the congratulation
\* date; a birthday whose occurrence of this year was on the Saturday or
\* Sunday right before a Monday reference date is rolled to the next year: it
\* is not returned for a window shorter than 363 days, and an entry it has for
\* a longer window carries the occurrence of the next year; the
\* congratulation date of an entry is at most 2 days after the window
C30_TakenByActualDate ==
    UpcomingReturned =>
        /\ taken_by_actual_date
        /\ \A k \in 1..Len(data) :
              weekend_before_reference(data[k].rec) =>
                 /\ last.days < 363 => entries_of(data[k].rec) = {}
                 /\ \A i \in entries_of(data[k].rec) :
                       last.ret[i].congratulation_actual.year = reference_date.year + 1

\* the reference date is Monday 06.01.2025 and the window 7 days: Alice, whose
\* birthday was on Saturday 04.01.2025, and alex, whose birthday was on Sunday
\* 05.01.2025, are not returned
C30_Witness ==
    /\ UpcomingReturned
    /\ last.arg = str_arg(D_06_01_2025)
    /\ last.days = 7
    /\ \E k \in 1..Len(data) : data[k].rec.name = Alice
    /\ \E k \in 1..Len(data) : data[k].rec.name = alex
    /\ last.ret = <<>>

NameCalls == {"Name", "Name.value"}

\* the input without the whitespace before its first and after its last
\* character that is not whitespace
trimmed(s) ==
    LET solid == {k \in 1..Len(s) : s[k] \notin Whitespace} IN
    IF solid = {} THEN <<>>
    ELSE SubSeq(s, CHOOSE k \in solid : \A j \in solid : k <= j,
                   CHOOSE k \in solid : \A j \in solid : k >= j)

\* C26: making a Name or assigning its value succeeds exactly when the
\* trimmed input is not empty and has 2 to 50 characters; the value stored is
\* the trimmed input, and a failed assignment keeps the name stored before
C26_NameLength ==
    last.op \in NameCalls =>
        /\ (last.err = NoError) <=>
              /\ trimmed(last.username) # <<>>
              /\ Len(trimmed(last.username)) >= 2
              /\ Len(trimmed(last.username)) <= 50
        /\ last.err = NoError =>
              /\ field.cls = "Name"
              /\ field.value = trimmed(last.username)
        /\ last.err # NoError =>
              /\ last.err.exc = "ValidationError"
              /\ field = prev_field

\* a Name holding the padded name of 50 characters without its padding still
\* holds it after a name of 51 characters was assigned
C26_Witness ==
    /\ last.op = "Name.value"
    /\ last.username = FiftyOne
    /\ last.err # NoError
    /\ field = [cls |-> "Name", value |-> Fifty]
    /\ prev_field = field
FacadeCalls ==
    {"show_all", "add_contact", "change_contact", "remove_contact", "show_phone",
     "contacts_manager.remove_phone", "contacts_manager.add_birthday",
     "show_birthday", "remove_birthday", "show_upcoming_birthdays"}

\* C22: every function of the facade, called on a loaded store with strings,
\* returns a result and never raises: no exception leaves the function
C22_FacadeNeverRaises ==
    last.op \in FacadeCalls => last.err = NoError

\* a name of prev_data equals name, and equals it when the cases are folded
stored_exactly(name) == \E i \in 1..Len(prev_data) : prev_data[i].key = name
stored_up_to_case(name) ==
    \E i \in 1..Len(prev_data) : casefold(prev_data[i].key) = casefold(name)

\* add_contact was called with a name and a phone that are valid, the phone
\* not being one the contact stored under the name holds
add_contact_of_valid_input ==
    /\ last.op = "add_contact"
    /\ Len(trimmed(last.username)) >= 2
    /\ Len(trimmed(last.username)) <= 50
    /\ digit_count(last.phone) = 10
    /\ \A i \in 1..Len(prev_data) :
          prev_data[i].key = last.username =>
             \A k \in 1..Len(prev_data[i].rec.phones) :
                prev_data[i].rec.phones[k] # trimmed(last.phone)

\* the store is prev_data and one more contact, which holds the phone only
contact_added(name) ==
    /\ Len(data) = Len(prev_data) + 1
    /\ SubSeq(data, 1, Len(prev_data)) = prev_data
    /\ data[Len(data)].key = name
    /\ data[Len(data)].rec =
          [name |-> name, birthday |-> <<>>, phones |-> <<trimmed(last.phone)>>]
    /\ last.message.msg = "MSG_CONTACT_ADDED"

\* the store is prev_data with the phone appended to the contact name
phone_appended(name) ==
    /\ Len(data) = Len(prev_data)
    /\ \A i \in 1..Len(data) :
          IF prev_data[i].key = name
          THEN data[i] = [prev_data[i] EXCEPT
                             !.rec.phones = Append(@, trimmed(last.phone))]
          ELSE data[i] = prev_data[i]
    /\ last.message.msg = "MSG_CONTACT_UPDATED MSG_PHONE_ADDED"

FailingFacadeCalls ==
    {"add_contact", "change_contact", "contacts_manager.remove_phone",
     "contacts_manager.add_birthday"}

FacadeSuccessMessages ==
    {"MSG_CONTACT_ADDED", "MSG_CONTACT_UPDATED MSG_PHONE_ADDED", "MSG_PHONE_UPDATED",
     "MSG_CONTACT_UPDATED MSG_PHONE_DELETED", "MSG_BIRTHDAY_ADDED",
     "MSG_BIRTHDAY_UPDATED"}

\* C29: when add_contact, change_contact, remove_phone or add_birthday of the
\* facade returns the message of a failed validation, the store is as it was
\* before the call: the same names, phones and birthdays; add_contact with a
\* new name and an invalid phone leaves no contact without a phone
C29_FailureLeavesStore ==
    (/\ last.op \in FailingFacadeCalls
     /\ last.err = NoError
     /\ last.message.msg \notin FacadeSuccessMessages)
        => data = prev_data

\* add_contact("Bob", "123") on a store without Bob returns the message of
\* the invalid phone and the store still has no Bob
C29_Witness ==
    /\ last.op = "add_contact"
    /\ last.username = Bob
    /\ last.phone = PShort
    /\ last.message.msg = "PHONE_INVALID_FORMAT_ERROR"
    /\ ~stored_up_to_case(Bob)
    /\ data = prev_data

\* the handler the help menu promises for a command
own_handler(command) ==
    IF command = Command_HELLO THEN "handle_hello"
    ELSE IF command = Command_ALL THEN "handle_all"
    ELSE IF command = Command_ADD THEN "handle_add"
    ELSE IF command = Command_CHANGE THEN "handle_change"
    ELSE IF command = Command_DELETE THEN "handle_delete"
    ELSE IF command = Command_PHONE THEN "handle_phone"
    ELSE IF command = Command_DELETE_PHONE THEN "handle_delete_phone"
    ELSE IF command = Command_ADD_BIRTHDAY THEN "handle_add_birthday"
    ELSE IF command = Command_SHOW_BIRTHDAY THEN "handle_show_birthday"
    ELSE IF command = Command_DELETE_BIRTHDAY THEN "handle_delete_birthday"
    ELSE IF command = Command_BIRTHDAYS THEN "handle_birthdays"
    ELSE IF command = Command_HELP THEN "handle_help"
    ELSE "handle_exit"

\* the first word of the line the loop read last, in lower case
first_word ==
    LET t == trimmed(app.line)
        gaps == {k \in 1..Len(t) : t[k] \in Whitespace}
        word == IF gaps = {} THEN t
                ELSE SubSeq(t, 1, (CHOOSE k \in gaps : \A j \in gaps : k <= j) - 1)
    IN casefold(word)

\* C28: the loop of main() routes every command of the help menu to its own
\* handler, and only a line whose first word is no command of the menu gets
\* the answer 'Invalid command'
C28_MenuCommandsRouted ==
    (app.handler # "none" /\ trimmed(app.line) # <<>>) =>
        IF \E i \in 1..Len(MENU_HELP_STR) : MENU_HELP_STR[i] = first_word
        THEN app.handler = own_handler(first_word)
        ELSE app.handler = "handle_unknown"

\* the ways load_address_book() fails on a file that is there
LoadFailures == {"PermissionError", "IsADirectoryError", "OSError", "UnpicklingError"}

\* C23: a missing contacts file starts the application with an empty store
\* and the loop is entered; any other failure to load (no permission, a
\* directory, an I/O error, a corrupt file) ends the process before a command
\* is read, with the message that the data could not be loaded, without a
\* save and without a write of the file
C23_LoadFailureExits ==
    /\ app.load = "FileNotFoundError" =>
           /\ app.loaded
           /\ app.shutdown # "load"
           /\ app.commands = 0 /\ app.pc = "prompt" => data = <<>>
    /\ app.load \in LoadFailures =>
           /\ app.pc = "exited"
           /\ app.shutdown = "load"
           /\ app.commands = 0
           /\ app.saves = 0
           /\ disk.writes = app.writes0
           /\ app.message = "Failed to load application data."
           /\ app.suffix = "can't start the application"

\* a second run found the file cut short by the first and ended at once
C23_Witness ==
    /\ app.load = "UnpicklingError"
    /\ app.pc = "exited"
    /\ app.run = 2
    /\ disk.exists

\* C24: when the process has ended after exit, close or Ctrl+C in the loop,
\* save_contacts() was called exactly once, and a save that failed with a
\* PersistenceError is told in the exit message
C24_SaveOnceAtShutdown ==
    (app.pc = "exited" /\ app.shutdown \in {"command", "KeyboardInterrupt"}) =>
        /\ app.saves = 1
        /\ app.message = "ERROR: Could not save contacts." =>
               app.suffix = "quitting without saving changes"

\* C25: pickle.load() of pickle.dump() of the store gives the store (keys,
\* names, phones in their order, birthdays or None), and a run that loaded
\* the file starts with the store the last save wrote
C25_RoundTrip ==
    /\ pickle_loads(pickle_dumps(data)) = [err |-> NoError, book |-> data]
    /\ (app.load = "loaded" /\ app.pc = "prompt" /\ app.commands = 0) =>
           data = disk.saved

\* a second run loaded a contact with a phone and a birthday
C25_Witness ==
    /\ app.run = 2
    /\ app.load = "loaded"
    /\ app.pc = "prompt"
    /\ app.commands = 0
    /\ Len(data) = 1
    /\ data[1].rec.birthday # <<>>
    /\ data[1].rec.phones # <<>>
    /\ data = disk.saved

====
